---- MODULE Spec2Model ----
(***************************************************************************)
(* A model of the DigitalReverb core: the Q12 fixed-point engine           *)
(* (FixedPointDSP.h), the ReverbHall effect module (ReverbHall.h/.cpp) and *)
(* the operations the host adapter drives it with.                         *)
(*                                                                         *)
(* The C++ code computes in IEEE-754 binary32 ("float").  A float is       *)
(* modelled as a pair <<m, e>> standing for m * 2^e, in canonical form:    *)
(*   zero is <<0, 0>>; otherwise 2^23 <= |m| < 2^24 and e >= EMin, or      *)
(*   |m| < 2^23 and e = EMin (a subnormal).                                *)
(* Every float operation computes the exact result and rounds it to        *)
(* nearest, ties to even, as the hardware does.  The sign of zero is not   *)
(* modelled (no operation of the code observes it), and neither are        *)
(* infinities and NaN (the values the model reaches stay far below 2^128). *)
(* TLC's integers are 32 bits wide, so products and sums wider than that   *)
(* are carried in two 24-bit limbs <<H, L>> standing for H * 2^24 + L.     *)
(***************************************************************************)
EXTENDS Integers, Sequences, FiniteSets, TLC

----------------------------------------------------------------------------
(* binary32 arithmetic *)

\* smallest exponent of a float's unit in the last place (subnormals)
EMin == -149

\* 2^n for 0 <= n <= 30 (and 1 for n < 0)
Pow2Table ==
    <<1, 2, 4, 8, 16, 32, 64, 128, 256, 512, 1024, 2048, 4096, 8192, 16384,
      32768, 65536, 131072, 262144, 524288, 1048576, 2097152, 4194304,
      8388608, 16777216, 33554432, 67108864, 134217728, 268435456,
      536870912, 1073741824>>
Pow2(n) == IF n <= 0 THEN 1 ELSE Pow2Table[n + 1]

\* the number of bits of n >= 0
BitLen(n) ==
    IF n < 65536
    THEN IF n < 256
         THEN IF n < 16
              THEN IF n < 4 THEN (IF n < 2 THEN n ELSE 2)
                   ELSE (IF n < 8 THEN 3 ELSE 4)
              ELSE IF n < 64 THEN (IF n < 32 THEN 5 ELSE 6)
                   ELSE (IF n < 128 THEN 7 ELSE 8)
         ELSE IF n < 4096
              THEN IF n < 1024 THEN (IF n < 512 THEN 9 ELSE 10)
                   ELSE (IF n < 2048 THEN 11 ELSE 12)
              ELSE IF n < 16384 THEN (IF n < 8192 THEN 13 ELSE 14)
                   ELSE (IF n < 32768 THEN 15 ELSE 16)
    ELSE IF n < 16777216
         THEN IF n < 1048576
              THEN IF n < 262144 THEN (IF n < 131072 THEN 17 ELSE 18)
                   ELSE (IF n < 524288 THEN 19 ELSE 20)
              ELSE IF n < 4194304 THEN (IF n < 2097152 THEN 21 ELSE 22)
                   ELSE (IF n < 8388608 THEN 23 ELSE 24)
         ELSE IF n < 268435456
              THEN IF n < 67108864 THEN (IF n < 33554432 THEN 25 ELSE 26)
                   ELSE (IF n < 134217728 THEN 27 ELSE 28)
              ELSE IF n < 1073741824 THEN (IF n < 536870912 THEN 29 ELSE 30)
                   ELSE 31

\* F applied to the value of v: the argument is computed once, before the call,
\* as the arguments of a C++ call are
Call(F(_), v) == CHOOSE r \in {F(x) : x \in {v}} : TRUE

Abs(n) == IF n < 0 THEN -n ELSE n
Sgn(n) == IF n < 0 THEN -1 ELSE 1
Max(a, b) == IF a < b THEN b ELSE a
Min(a, b) == IF b < a THEN b ELSE a

FZero == <<0, 0>>

\* the mantissa qq of a rounded value, packed with its exponent
RoundPack(s, e, sh, qq) ==
    IF qq = 0 THEN FZero
    ELSE IF qq = Pow2(24) THEN <<s * Pow2(23), e + sh + 1>>
    ELSE <<s * qq, e + sh>>

\* round to nearest, ties to even: q is the kept part, c the discarded part
\* against half a unit (1 above, 0 equal, -1 below)
RoundNearest(s, e, sh, q, c) ==
    RoundPack(s, e, sh, IF c = 1 \/ (c = 0 /\ q % 2 = 1) THEN q + 1 ELSE q)

\* the discarded part of H * 2^24 + L below bit sh against half a unit
RoundRest(H, L, sh, rem, half) ==
    IF sh <= 24
    THEN IF rem > half THEN 1 ELSE IF rem = half THEN 0 ELSE -1
    ELSE IF rem > half \/ (rem = half /\ L > 0) THEN 1
         ELSE IF rem = half /\ L = 0 THEN 0 ELSE -1

\* the bits of H * 2^24 + L from bit sh upwards
RoundKept(H, L, sh) ==
    IF sh <= 24 THEN H * Pow2(24 - sh) + (L \div Pow2(sh))
    ELSE IF sh <= 54 THEN H \div Pow2(sh - 24)
    ELSE 0

\* the bits of H * 2^24 + L below bit sh against half a unit (sh >= 1)
RoundDiscarded(H, L, sh) ==
    IF sh > 54 THEN -1
    ELSE RoundRest(H, L, sh,
                   IF sh <= 24 THEN L % Pow2(sh) ELSE H % Pow2(sh - 24),
                   IF sh <= 24 THEN Pow2(sh - 1) ELSE Pow2(sh - 25))

RoundShift(s, H, L, e, bl, sh) ==
    IF sh <= 0
    THEN <<s * L * Pow2(Min(24 - bl, e - EMin)), e - Min(24 - bl, e - EMin)>>
    ELSE RoundNearest(s, e, sh, RoundKept(H, L, sh), RoundDiscarded(H, L, sh))

RoundBits(s, H, L, e, bl) == RoundShift(s, H, L, e, bl, Max(bl - 24, EMin - e))

\* The float nearest to s * (H * 2^24 + L) * 2^e, ties to even
\* (s in {1,-1}, 0 <= L < 2^24, 0 <= H).
RoundHL(s, H, L, e) ==
    IF H = 0 /\ L = 0 THEN FZero
    ELSE RoundBits(s, H, L, e, IF H > 0 THEN 24 + BitLen(H) ELSE BitLen(L))

\* int -> float (static_cast<float>(int))
FromInt(n) == RoundHL(Sgn(n), Abs(n) \div Pow2(24), Abs(n) % Pow2(24), 0)

FNeg(x) == <<-x[1], x[2]>>
FAbs(x) == <<Abs(x[1]), x[2]>>

\* the 48-bit product of two 24-bit mantissas from its 12-bit partial products
MulParts(s, e, hh, mid, lo) ==
    RoundHL(s, hh + (mid \div 4096), (mid % 4096) * 4096 + (lo % 4096), e)

MulLimbs(s, e, a1, a0, b1, b0) ==
    MulParts(s, e, a1 * b1, a1 * b0 + a0 * b1 + ((a0 * b0) \div 4096), a0 * b0)

\* x * y
FMul(x, y) ==
    MulLimbs(Sgn(x[1]) * Sgn(y[1]), x[2] + y[2],
             Abs(x[1]) \div 4096, Abs(x[1]) % 4096,
             Abs(y[1]) \div 4096, Abs(y[1]) % 4096)

\* sx * (H * 2^24 + L) * 2^e + y, the two of opposite or equal sign, b = |y|
AddAligned(sx, H, L, y, b) ==
    RoundHL(IF sx # Sgn(y[1]) /\ H = 0 /\ L < b THEN -sx ELSE sx,
            IF sx = Sgn(y[1]) THEN H + ((L + b) \div 16777216)
            ELSE IF H = 0 \/ L >= b THEN H ELSE H - 1,
            IF sx = Sgn(y[1]) THEN (L + b) % 16777216
            ELSE IF H = 0 THEN Abs(L - b)
            ELSE IF L >= b THEN L - b ELSE L + 16777216 - b,
            y[2])

AddShifted(x, y, d, a) ==
    IF d >= 26 THEN x
    ELSE AddAligned(Sgn(x[1]),
                    IF d = 25 THEN 2 * a ELSE a \div Pow2(24 - d),
                    IF d = 25 THEN 0 ELSE (a % Pow2(24 - d)) * Pow2(d),
                    y, Abs(y[1]))

\* x + y, where x is the operand with the larger exponent
AddOrdered(x, y) == AddShifted(x, y, x[2] - y[2], Abs(x[1]))

\* x + y
FAdd(x, y) ==
    IF x[1] = 0 THEN y
    ELSE IF y[1] = 0 THEN x
    ELSE AddOrdered(IF x[2] >= y[2] THEN x ELSE y, IF x[2] >= y[2] THEN y ELSE x)

\* x - y
FSub(x, y) == FAdd(x, FNeg(y))

\* x < y
FLess(x, y) == FSub(x, y)[1] < 0

\* long division: <<quotient so far, remainder>> extended by `bits` bits
DivStep(b, acc, bits) ==
    <<acc[1] * Pow2(bits) + ((acc[2] * Pow2(bits)) \div b), (acc[2] * Pow2(bits)) % b>>

DivPack(s, e, v) == RoundHL(s, v \div Pow2(24), v % Pow2(24), e)

\* the quotient to 25 fractional bits, with a last bit that is set when the
\* division left a remainder
DivRound(s, e, qr) == DivPack(s, e, 2 * qr[1] + (IF qr[2] # 0 THEN 1 ELSE 0))

\* floor(a * 2^25 / b), seven bits at a time (2^23 <= a, b < 2^24)
DivBits(s, a, b, e) ==
    DivRound(s, e, DivStep(b, DivStep(b, DivStep(b, DivStep(b, <<0, a>>, 7), 7), 7), 4))

DivNorm(s, x, y, ka, kb) ==
    DivBits(s, Abs(x[1]) * Pow2(ka), Abs(y[1]) * Pow2(kb),
            (x[2] - ka) - (y[2] - kb) - 26)

\* x / y (y nonzero)
FDiv(x, y) ==
    IF x[1] = 0 THEN FZero
    ELSE DivNorm(Sgn(x[1]) * Sgn(y[1]), x, y,
                 24 - BitLen(Abs(x[1])), 24 - BitLen(Abs(y[1])))

\* static_cast<int32_t>(x): truncation towards zero (the value must fit)
FTrunc(x) ==
    IF x[2] >= 0 THEN x[1] * Pow2(x[2])
    ELSE IF -x[2] > 30 THEN 0
    ELSE Sgn(x[1]) * (Abs(x[1]) \div Pow2(-x[2]))

\* juce::jlimit(lo, hi, v)
FLimit(lo, hi, v) == IF FLess(v, lo) THEN lo ELSE IF FLess(hi, v) THEN hi ELSE v

\* the float nearest to the decimal literal n/d, as the compiler reads "0.95f"
Flt(n, d) == FDiv(FromInt(n), FromInt(d))

F0    == FZero
F1    == Flt(1, 1)
F0_5  == Flt(1, 2)
F0_1  == Flt(1, 10)
F0_7  == Flt(7, 10)
F0_9  == Flt(9, 10)
F0_95 == Flt(95, 100)
F0_99 == Flt(99, 100)
F0_999 == Flt(999, 1000)
F0_001 == Flt(1, 1000)
F0_05 == Flt(5, 100)
F2    == Flt(2, 1)
FM3   == Flt(-3, 1)
F10   == Flt(10, 1)
F100  == Flt(100, 1)
F2165 == Flt(2165, 1)
F44100 == Flt(44100, 1)
\* 6.28318530718f
FTwoPi == <<13176795, -21>>

\* std::pow(10.0f, x) at the arguments the model's parameter values lead to
\* (<<x, powf(10, x)>>, taken from the C library; each is the correctly
\* rounded value of 10^x).
PowTable ==
    { <<<<-10018696, -23>>, <<8580019, -27>>>>,
      <<<<-10061250, -28>>, <<15390007, -24>>>>,
      <<<<-10061250, -35>>, <<16765908, -24>>>>,
      <<<<-10066330, -25>>, <<8408526, -24>>>>,
      <<<<-10581858, -28>>, <<15321434, -24>>>>,
      <<<<-10581858, -35>>, <<16765323, -24>>>>,
      <<<<-10738933, -28>>, <<15300804, -24>>>>,
      <<<<-11846587, -24>>, <<13202868, -26>>>>,
      <<<<-11846587, -30>>, <<16356369, -24>>>>,
      <<<<-11846587, -31>>, <<16565456, -24>>>>,
      <<<<-11902912, -26>>, <<11151998, -24>>>>,
      <<<<-11902912, -32>>, <<16670496, -24>>>>,
      <<<<-11902912, -33>>, <<16723771, -24>>>>,
      <<<<-12398866, -22>>, <<9503199, -33>>>>,
      <<<<-12398866, -29>>, <<15908353, -24>>>>,
      <<<<-12457817, -24>>, <<12140488, -26>>>>,
      <<<<-12457817, -31>>, <<16554603, -24>>>>,
      <<<<-12576563, -28>>, <<15061511, -24>>>>,
      <<<<-12576563, -35>>, <<16763082, -24>>>>,
      <<<<-12582912, -22>>, <<8589935, -33>>>>,
      <<<<-12636360, -27>>, <<13507397, -24>>>>,
      <<<<-12636360, -34>>, <<16748826, -24>>>>,
      <<<<-12642738, -24>>, <<11836246, -26>>>>,
      <<<<-12696440, -29>>, <<15888062, -24>>>>,
      <<<<-12696440, -36>>, <<16770080, -24>>>>,
      <<<<-12698230, -29>>, <<15887940, -24>>>>,
      <<<<-12698230, -35>>, <<16762945, -24>>>>,
      <<<<-12698230, -36>>, <<16770079, -24>>>>,
      <<<<-12763246, -28>>, <<15037412, -24>>>>,
      <<<<-14878640, -23>>, <<9040611, -29>>>>,
      <<<<-14878640, -29>>, <<15740056, -24>>>>,
      <<<<-14878640, -30>>, <<16250364, -24>>>>,
      <<<<-14949380, -25>>, <<12028837, -25>>>>,
      <<<<-14949380, -31>>, <<16510436, -24>>>>,
      <<<<-14949380, -32>>, <<16643292, -24>>>>,
      <<<<-15091876, -29>>, <<15725667, -24>>>>,
      <<<<-15091876, -35>>, <<16760257, -24>>>>,
      <<<<-15091876, -36>>, <<16768734, -24>>>>,
      <<<<-15795450, -24>>, <<15357754, -27>>>>,
      <<<<-15795450, -27>>, <<12794833, -24>>>>,
      <<<<-15795450, -31>>, <<16495465, -24>>>>,
      <<<<-15795450, -34>>, <<16741736, -24>>>>,
      <<<<-15870549, -26>>, <<9732632, -24>>>>,
      <<<<-15870549, -33>>, <<16705994, -24>>>>,
      <<<<-15870550, -29>>, <<15673237, -24>>>>,
      <<<<-15870550, -36>>, <<16768297, -24>>>>,
      <<<<-16029914, -27>>, <<12743471, -24>>>>,
      <<<<-16106128, -29>>, <<15657409, -24>>>>,
      <<<<-8465487, -28>>, <<15602116, -24>>>>,
      <<<<-8465487, -35>>, <<16767701, -24>>>>,
      <<<<-9477270, -27>>, <<14259646, -24>>>>,
      <<<<-9477270, -33>>, <<16734649, -24>>>>,
      <<<<-9477270, -34>>, <<16755919, -24>>>>,
      <<<<-9522330, -29>>, <<16105832, -24>>>>,
      <<<<-9522330, -35>>, <<16766513, -24>>>>,
      <<<<-9522330, -36>>, <<16771864, -24>>>>,
      <<<<-9872156, -23>>, <<8932174, -27>>>>,
      <<<<-9872156, -30>>, <<16425770, -24>>>>,
      <<<<-9919093, -22>>, <<9269020, -31>>>>,
      <<<<-9919093, -25>>, <<8493915, -24>>>>,
      <<<<-9919093, -29>>, <<16078449, -24>>>>,
      <<<<-9919093, -32>>, <<16688236, -24>>>>,
      <<<<-9966254, -24>>, <<8545055, -25>>>>,
      <<<<-9966254, -31>>, <<16598888, -24>>>>,
      <<<<0, 0>>, <<8388608, -23>>>>,
      <<<<10066330, -24>>, <<16697826, -22>>>>,
      <<<<11744051, -23>>, <<13169518, -19>>>>,
      <<<<13421773, -23>>, <<10436141, -18>>>>,
      <<<<13421773, -26>>, <<13295048, -23>>>>,
      <<<<8388608, -22>>, <<13107200, -17>>>>,
      <<<<8388608, -23>>, <<10485760, -20>>>>,
      <<<<8388608, -26>>, <<11186389, -23>>>> }
PowLookup(x) == (CHOOSE p \in PowTable : p[1] = x)[2]

\* powf(10.0f, x)
PowF10(x) == Call(PowLookup, x)

----------------------------------------------------------------------------
(* FixedPointDSP.h *)

HISC_MAX == 524287
HISC_MIN == -524288
Q12_ONE == 4096

\* the range of int32_t
INT32_MAX == 2147483647

\* juce::jlimit<int32_t>(lo, hi, v)
ILimit(lo, hi, v) == IF v < lo THEN lo ELSE IF hi < v THEN hi ELSE v

\* a saturate that lets every value through
saturateNothing(value) == value

\* FixedPointSample::saturate
saturate(value) == ILimit(HISC_MIN, HISC_MAX, value)

\* (a * b) >> 12 on int64_t, for a and b of at most 20 bits: the shift is
\* arithmetic, so the product is floored; it is taken limb by limb of a, each
\* part within 31 bits
ProductShift12(a, b) == (a \div 4096) * b + (((a % 4096) * b) \div 4096)

\* "result > HISC_MAX || result < HISC_MIN"
OutOfRange(result) == result > HISC_MAX \/ result < HISC_MIN

\* a mac whose flag looks at the shifted product before c is added
macFlagBeforeAdd(a, b, c) ==
    [value |-> ILimit(HISC_MIN, HISC_MAX, ProductShift12(a, b) + c),
     overflow |-> OutOfRange(ProductShift12(a, b))]

\* FixedPointEngine::mac: the sample handed back and the overflow out-flag
mac(a, b, c) ==
    [value |-> ILimit(HISC_MIN, HISC_MAX, ProductShift12(a, b) + c),
     overflow |-> OutOfRange(ProductShift12(a, b) + c)]

\* FixedPointEngine::multiply: the sample handed back and the overflow out-flag
multiply(a, b) ==
    [value |-> ILimit(HISC_MIN, HISC_MAX, ProductShift12(a, b)),
     overflow |-> OutOfRange(ProductShift12(a, b))]

\* FixedPointEngine::floatToQ12 and ReverbHall::floatToFixed (the same code),
\* where the scaled value fits int32_t
floatToQ12(f) == saturate(FTrunc(FMul(f, FromInt(Q12_ONE))))

\* the float x, truncated, is a value of int32_t: |x| < 2^31 or x = -2^31
FitsInt32(x) == x[2] <= 7 \/ x = <<-8388608, 8>>

\* static_cast<int32_t>(x): the truncated value when it fits; otherwise the
\* conversion is undefined, and what builds produce is INT32_MIN whatever the
\* sign of x (x86 cvttss2si) or the bound on the side of x (ARM fcvtzs)
CastToInt32(x) ==
    IF FitsInt32(x) THEN {FTrunc(x)}
    ELSE IF x[1] > 0 THEN {-INT32_MAX - 1, INT32_MAX}
    ELSE {-INT32_MAX - 1}

\* FixedPointEngine::floatToQ12 for any float f: the values it can hand back
floatToQ12Outcomes(f) == {saturate(value) : value \in CastToInt32(FMul(f, FromInt(Q12_ONE)))}

\* a Q12ToFloat that divides by 2048, half the scale of floatToQ12
Q12ToFloatHalfScale(q) == FDiv(FromInt(q), FromInt(2048))

\* FixedPointEngine::Q12ToFloat and ReverbHall::fixedToFloat
Q12ToFloat(q) == FDiv(FromInt(q), FromInt(Q12_ONE))

\* FixedPointEngine::dcOffsetFilterCoeff
dcOffsetFilterCoeff == F0_999

\* FixedPointEngine::dcBlock: <<returned sample, new state>>
dcBlock(input, state) ==
    LET inputFloat == Q12ToFloat(input)
        output == FAdd(FSub(inputFloat, state), FMul(dcOffsetFilterCoeff, state))
    IN  <<floatToQ12(output), inputFloat>>

----------------------------------------------------------------------------
(* std::vector: a length and the cells that are not zero *)

\* a vector of n zeros
ZeroVec(n) == [size |-> n, cells |-> <<>>]

VecGet(buf, zero, i) == IF i \in DOMAIN buf.cells THEN buf.cells[i] ELSE zero

VecSet(buf, zero, i, v) ==
    LET dom == IF v = zero THEN DOMAIN buf.cells \ {i} ELSE DOMAIN buf.cells \cup {i}
    IN  [size |-> buf.size,
         cells |-> [j \in dom |-> IF j = i THEN v ELSE buf.cells[j]]]

\* vector::resize(n, 0): the first n cells are kept, new cells are zero
VecResize(buf, n) ==
    [size |-> n, cells |-> [j \in {k \in DOMAIN buf.cells : k < n} |-> buf.cells[j]]]

\* std::fill(begin, end, 0)
VecFill(buf) == ZeroVec(buf.size)

----------------------------------------------------------------------------
(* ReverbHall *)

baseCombDelays == <<1687, 1923, 2287, 2763>>
baseEarlyDelays == <<142, 107, 379, 277, 672, 908, 445, 500>>
baseAllpassDelays == <<389, 127>>

CombIdx == 0 .. 3
EarlyIdx == 0 .. 7
ApIdx == 0 .. 1

\* ReverbHall::validateParameters
validateParameters(h) ==
    LET c == [h EXCEPT !.preDelay = FLimit(F0, F1, @),
                       !.decayTime = FLimit(F0, F1, @),
                       !.diffusion = FLimit(F0, F1, @),
                       !.damping = FLimit(F0, F1, @),
                       !.earlyLevel = FLimit(F0, F1, @),
                       !.size = FLimit(F0, F1, @),
                       !.mix = FLimit(F0, F1, @)]
    IN  IF FLess(c.size, F0_1) THEN [c EXCEPT !.size = F0_5] ELSE c

\* floor(x * y) for x, y >= 0: the double product the code truncates.  The
\* sample rates of the model are 44100 * 2^k, for which the double
\* arithmetic of the code is exact up to its final truncation.
MulFloor(x, y) ==
    LET a  == x[1]
        b  == y[1]
        a1 == a \div 4096
        a0 == a % 4096
        b1 == b \div 4096
        b0 == b % 4096
        lo == a0 * b0
        s1 == a1 * b0 + a0 * b1 + (lo \div 4096)
        H  == a1 * b1 + (s1 \div 4096)
        L  == (s1 % 4096) * 4096 + (lo % 4096)
        k  == -(x[2] + y[2])
    IN  IF k <= 0 THEN (H * Pow2(24) + L) * Pow2(-k)
        ELSE IF k <= 24 THEN H * Pow2(24 - k) + (L \div Pow2(k))
        ELSE IF k <= 54 THEN H \div Pow2(k - 24)
        ELSE 0

\* preDelayReadOffset (ReverbHall.cpp:170-172)
PreDelayReadOffset(preDelay, sampleRate) ==
    LET preDelayMs == FMul(preDelay, F100)
        offset == MulFloor(preDelayMs, sampleRate) \div 1000
    IN  IF offset < 1 THEN 1 ELSE offset

\* a feedback gain limited to [0, 1] instead of [0, 0.95]
CombFeedbackGainToOne(decayTime, size, sampleRate) ==
    LET rt60 == FMul(F0_1, PowF10(FMul(decayTime, F2)))
        avg0 == FMul(FMul(F2165, size), FDiv(sampleRate, F44100))
        avgDelay == IF FLess(avg0, F10) THEN F10 ELSE avg0
        feedbackGain == PowF10(FDiv(FMul(FM3, rt60), avgDelay))
    IN  floatToQ12(FLimit(F0, F1, feedbackGain))

\* the comb feedback gain (ReverbHall.cpp:174-179, 183)
CombFeedbackGain(decayTime, size, sampleRate) ==
    LET rt60 == FMul(F0_1, PowF10(FMul(decayTime, F2)))
        avg0 == FMul(FMul(F2165, size), FDiv(sampleRate, F44100))
        avgDelay == IF FLess(avg0, F10) THEN F10 ELSE avg0
        feedbackGain == PowF10(FDiv(FMul(FM3, rt60), avgDelay))
    IN  floatToQ12(FLimit(F0, F0_95, feedbackGain))

\* dampingAlpha (ReverbHall.cpp:186-187)
DampingAlpha(damping) == floatToQ12(FSub(F1, FMul(damping, F0_99)))

\* the gain of early tap i (ReverbHall.cpp:190-192)
EarlyGain(earlyLevel, i) ==
    floatToQ12(FLimit(F0, F1, FMul(earlyLevel, FSub(F0_9, FMul(FromInt(i), F0_1)))))

\* the allpass coefficient (ReverbHall.cpp:195-198)
AllpassCoeff(diffusion) == floatToQ12(FLimit(F0_1, F0_9, FMul(diffusion, F0_7)))

\* the coefficients of a validated instance (ReverbHall.cpp:170-199)
DeriveCoefficients(h, fb) ==
        [h EXCEPT
           !.preDelayReadOffset = PreDelayReadOffset(h.preDelay, h.sampleRate),
           !.combFilters = [i \in CombIdx |-> [h.combFilters[i] EXCEPT !.feedbackGain = fb]],
           !.dampingAlpha = DampingAlpha(h.damping),
           !.earlyReflections = [i \in EarlyIdx |->
                [h.earlyReflections[i] EXCEPT !.gain = EarlyGain(h.earlyLevel, i)]],
           !.allpassFilters = [i \in ApIdx |->
                [h.allpassFilters[i] EXCEPT !.coeff = AllpassCoeff(h.diffusion)]]]

UpdateValidated(h) ==
    Call(LAMBDA fb : DeriveCoefficients(h, fb),
         CombFeedbackGain(h.decayTime, h.size, h.sampleRate))

\* ReverbHall::updateParameters
updateParameters(h) == Call(UpdateValidated, validateParameters(h))

\* the delay length of a line (ReverbHall.cpp:345-346, 351-352, 358-359)
DelayLength(base, sampleRateScale, size) ==
    LET n == FTrunc(FMul(FMul(FromInt(base), sampleRateScale), size))
    IN  IF n < 10 THEN 10 ELSE n

\* floor(sampleRate * 0.2), the length of the pre-delay buffer
MaxPreDelaySamples(sampleRate) ==
    LET n == IF sampleRate[2] >= 0 THEN (sampleRate[1] * Pow2(sampleRate[2])) \div 5
             ELSE sampleRate[1] \div (5 * Pow2(-sampleRate[2]))
    IN  IF n < 10 THEN 10 ELSE n

\* a buffer of as many cells as the delay is long
BufferSizeExact(delayLength) == delayLength

\* the size a line's buffer is resized to (ReverbHall.cpp:347, 353, 360)
BufferSize(delayLength) == delayLength + 1

\* ReverbHall::initializeBuffers, given sampleRateScale
InitializeScaled(h, sampleRateScale) ==
        [h EXCEPT
           !.combFilters = [i \in CombIdx |->
                LET len == DelayLength(baseCombDelays[i + 1], sampleRateScale, h.size)
                IN  [h.combFilters[i] EXCEPT
                       !.delayLength = len,
                       !.buffer = VecResize(@, BufferSize(len)),
                       !.writeIndex = 0]],
           !.earlyReflections = [i \in EarlyIdx |->
                LET len == DelayLength(baseEarlyDelays[i + 1], sampleRateScale, h.size)
                IN  [h.earlyReflections[i] EXCEPT
                       !.delayLength = len,
                       !.buffer = VecResize(@, BufferSize(len)),
                       !.writeIndex = 0,
                       !.gain = floatToQ12(FMul(h.earlyLevel,
                                    FSub(F0_9, FMul(FromInt(i), F0_1))))]],
           !.allpassFilters = [i \in ApIdx |->
                LET len == DelayLength(baseAllpassDelays[i + 1], sampleRateScale, h.size)
                IN  [h.allpassFilters[i] EXCEPT
                       !.delayLength = len,
                       !.buffer = VecResize(@, BufferSize(len)),
                       !.writeIndex = 0,
                       !.coeff = floatToQ12(FMul(h.diffusion, F0_7))]],
           !.preDelayBuffer = VecResize(@, MaxPreDelaySamples(h.sampleRate)),
           !.preDelayWriteIndex = 0]

\* ReverbHall::initializeBuffers
initializeBuffers(h) == InitializeScaled(h, FDiv(h.sampleRate, F44100))

\* a reset that empties the buffers with clear() instead of filling them
resetClearsBuffers(h) ==
    [h EXCEPT
       !.combFilters = [i \in CombIdx |->
            [h.combFilters[i] EXCEPT !.buffer = ZeroVec(0), !.writeIndex = 0]],
       !.earlyReflections = [i \in EarlyIdx |->
            [h.earlyReflections[i] EXCEPT !.buffer = ZeroVec(0), !.writeIndex = 0]],
       !.allpassFilters = [i \in ApIdx |->
            [h.allpassFilters[i] EXCEPT !.buffer = ZeroVec(0), !.writeIndex = 0]],
       !.preDelayBuffer = ZeroVec(0),
       !.preDelayWriteIndex = 0,
       !.dampingStateL = 0,
       !.dampingStateR = 0,
       !.lpfStateL = F0,
       !.lpfStateR = F0,
       !.dcOffsetStateL = F0,
       !.dcOffsetStateR = F0,
       !.lfoPhase = F0,
       !.currentTailLevel = F0]

\* a reset whose first loop is missing: the comb buffers and their write
\* indices stay as they are
resetKeepsCombs(h) ==
    [h EXCEPT
       !.earlyReflections = [i \in EarlyIdx |->
            [h.earlyReflections[i] EXCEPT !.buffer = VecFill(@), !.writeIndex = 0]],
       !.allpassFilters = [i \in ApIdx |->
            [h.allpassFilters[i] EXCEPT !.buffer = VecFill(@), !.writeIndex = 0]],
       !.preDelayBuffer = VecFill(@),
       !.preDelayWriteIndex = 0,
       !.dampingStateL = 0,
       !.dampingStateR = 0,
       !.lpfStateL = F0,
       !.lpfStateR = F0,
       !.dcOffsetStateL = F0,
       !.dcOffsetStateR = F0,
       !.lfoPhase = F0,
       !.currentTailLevel = F0]

\* ReverbHall::reset
reset(h) ==
    [h EXCEPT
       !.combFilters = [i \in CombIdx |->
            [h.combFilters[i] EXCEPT !.buffer = VecFill(@), !.writeIndex = 0]],
       !.earlyReflections = [i \in EarlyIdx |->
            [h.earlyReflections[i] EXCEPT !.buffer = VecFill(@), !.writeIndex = 0]],
       !.allpassFilters = [i \in ApIdx |->
            [h.allpassFilters[i] EXCEPT !.buffer = VecFill(@), !.writeIndex = 0]],
       !.preDelayBuffer = VecFill(@),
       !.preDelayWriteIndex = 0,
       !.dampingStateL = 0,
       !.dampingStateR = 0,
       !.lpfStateL = F0,
       !.lpfStateR = F0,
       !.dcOffsetStateL = F0,
       !.dcOffsetStateR = F0,
       !.lfoPhase = F0,
       !.currentTailLevel = F0]

\* the members as their in-class initializers leave them (ReverbHall.h)
HallMembers ==
    [preDelay |-> F0, decayTime |-> F0_7, diffusion |-> Flt(8, 10),
     damping |-> F0_5, earlyLevel |-> F0_7, size |-> F1, mix |-> F0_5,
     combFilters |-> [i \in CombIdx |->
        [delayLength |-> 0, feedbackGain |-> 0, buffer |-> ZeroVec(0), writeIndex |-> 0]],
     allpassFilters |-> [i \in ApIdx |->
        [delayLength |-> 0, coeff |-> 0, buffer |-> ZeroVec(0), writeIndex |-> 0]],
     earlyReflections |-> [i \in EarlyIdx |->
        [delayLength |-> 0, gain |-> 0, buffer |-> ZeroVec(0), writeIndex |-> 0]],
     preDelayBuffer |-> ZeroVec(0), preDelayWriteIndex |-> 0, preDelayReadOffset |-> 0,
     dampingAlpha |-> 0, dampingStateL |-> 0, dampingStateR |-> 0,
     lpfStateL |-> F0, lpfStateR |-> F0, dcOffsetStateL |-> F0, dcOffsetStateR |-> F0,
     lfoPhase |-> F0, currentTailLevel |-> F0,
     sampleRate |-> F44100]

\* ReverbHall::ReverbHall
NewReverbHall ==
    Call(updateParameters, Call(initializeBuffers,
        [HallMembers EXCEPT !.sampleRate = F44100,
                            !.preDelay = F0, !.decayTime = F0_7,
                            !.diffusion = Flt(8, 10), !.damping = F0_5,
                            !.earlyLevel = F0_7, !.size = F1, !.mix = F0_5]))

\* ReverbHall::prepare
prepare(h, sr) ==
    Call(reset, Call(updateParameters,
                     Call(initializeBuffers, [h EXCEPT !.sampleRate = sr])))

\* a setParameter that leaves the coefficients as they are
setParameterNoUpdate(h, parameterIndex, value0) ==
    LET value == FLimit(F0, F1, value0)
    IN  CASE parameterIndex = 0 -> [h EXCEPT !.preDelay = value]
          [] parameterIndex = 1 -> [h EXCEPT !.decayTime = value]
          [] parameterIndex = 2 -> [h EXCEPT !.diffusion = value]
          [] parameterIndex = 3 -> [h EXCEPT !.damping = value]
          [] parameterIndex = 4 -> [h EXCEPT !.earlyLevel = value]
          [] parameterIndex = 5 -> [h EXCEPT !.size = value]
          [] parameterIndex = 6 -> [h EXCEPT !.mix = value]
          [] OTHER -> h

\* a setParameter that ignores a value outside [0,1]
setParameterRejects(h, parameterIndex, value0) ==
    IF FLess(value0, F0) \/ FLess(F1, value0) THEN h
    ELSE updateParameters(
          CASE parameterIndex = 0 -> [h EXCEPT !.preDelay = value0]
            [] parameterIndex = 1 -> [h EXCEPT !.decayTime = value0]
            [] parameterIndex = 2 -> [h EXCEPT !.diffusion = value0]
            [] parameterIndex = 3 -> [h EXCEPT !.damping = value0]
            [] parameterIndex = 4 -> [h EXCEPT !.earlyLevel = value0]
            [] parameterIndex = 5 -> [h EXCEPT !.size = value0]
            [] parameterIndex = 6 -> [h EXCEPT !.mix = value0]
            [] OTHER -> h)

\* a setParameter whose switch sends an index it does not know to the mix
setParameterFallsToMix(h, parameterIndex, value0) ==
    LET value == FLimit(F0, F1, value0)
    IN  updateParameters(
          CASE parameterIndex = 0 -> [h EXCEPT !.preDelay = value]
            [] parameterIndex = 1 -> [h EXCEPT !.decayTime = value]
            [] parameterIndex = 2 -> [h EXCEPT !.diffusion = value]
            [] parameterIndex = 3 -> [h EXCEPT !.damping = value]
            [] parameterIndex = 4 -> [h EXCEPT !.earlyLevel = value]
            [] parameterIndex = 5 -> [h EXCEPT !.size = value]
            [] OTHER -> [h EXCEPT !.mix = value])

\* ReverbHall::setParameter
setParameter(h, parameterIndex, value0) ==
    LET value == FLimit(F0, F1, value0)
    IN  updateParameters(
          CASE parameterIndex = 0 -> [h EXCEPT !.preDelay = value]
            [] parameterIndex = 1 -> [h EXCEPT !.decayTime = value]
            [] parameterIndex = 2 -> [h EXCEPT !.diffusion = value]
            [] parameterIndex = 3 -> [h EXCEPT !.damping = value]
            [] parameterIndex = 4 -> [h EXCEPT !.earlyLevel = value]
            [] parameterIndex = 5 -> [h EXCEPT !.size = value]
            [] parameterIndex = 6 -> [h EXCEPT !.mix = value]
            [] OTHER -> h)

\* ReverbHall::getParameter
getParameter(h, parameterIndex) ==
    CASE parameterIndex = 0 -> h.preDelay
      [] parameterIndex = 1 -> h.decayTime
      [] parameterIndex = 2 -> h.diffusion
      [] parameterIndex = 3 -> h.damping
      [] parameterIndex = 4 -> h.earlyLevel
      [] parameterIndex = 5 -> h.size
      [] parameterIndex = 6 -> h.mix
      [] OTHER -> F0

\* a loadPreset that reads the damping and the early level in the other order
loadPresetSwapped(h, preset) ==
    IF Len(preset) >= 7
    THEN updateParameters([h EXCEPT !.preDelay = FLimit(F0, F1, preset[1]),
                                    !.decayTime = FLimit(F0, F1, preset[2]),
                                    !.diffusion = FLimit(F0, F1, preset[3]),
                                    !.damping = FLimit(F0, F1, preset[5]),
                                    !.earlyLevel = FLimit(F0, F1, preset[4]),
                                    !.size = FLimit(F0, F1, preset[6]),
                                    !.mix = FLimit(F0, F1, preset[7])])
    ELSE h

\* a loadPreset that applies the values a preset holds, however few
loadPresetPartial(h, preset) ==
    LET held(i, kept) == IF Len(preset) >= i THEN FLimit(F0, F1, preset[i]) ELSE kept
    IN  updateParameters([h EXCEPT !.preDelay = held(1, h.preDelay),
                                   !.decayTime = held(2, h.decayTime),
                                   !.diffusion = held(3, h.diffusion),
                                   !.damping = held(4, h.damping),
                                   !.earlyLevel = held(5, h.earlyLevel),
                                   !.size = held(6, h.size),
                                   !.mix = held(7, h.mix)])

\* ReverbHall::loadPreset (preset: the sequence parameterValues)
loadPreset(h, preset) ==
    IF Len(preset) >= 7
    THEN updateParameters([h EXCEPT !.preDelay = FLimit(F0, F1, preset[1]),
                                    !.decayTime = FLimit(F0, F1, preset[2]),
                                    !.diffusion = FLimit(F0, F1, preset[3]),
                                    !.damping = FLimit(F0, F1, preset[4]),
                                    !.earlyLevel = FLimit(F0, F1, preset[5]),
                                    !.size = FLimit(F0, F1, preset[6]),
                                    !.mix = FLimit(F0, F1, preset[7])])
    ELSE h

\* the % of C++ on int: the remainder of the division that truncates
CMod(a, b) == IF a >= 0 THEN a % b ELSE -((-a) % b)

\* "if (line.buffer.empty() || line.delayLength < 1) continue;"
LineActive(line) == ~(line.buffer.size = 0 \/ line.delayLength < 1)

\* a read one cell further back, at the cell about to be overwritten
LineReadIndexOneMore(line) ==
    CMod(line.writeIndex - line.delayLength - 1 + line.buffer.size, line.buffer.size)

\* the index a line reads: (writeIndex - delayLength + size) % size
LineReadIndex(line) ==
    CMod(line.writeIndex - line.delayLength + line.buffer.size, line.buffer.size)

\* the cell a line reads
LineDelayed(line) == VecGet(line.buffer, 0, LineReadIndex(line))

\* a line stores floatToQ12(value) at its write index and advances the index
LineWrite(line, value) ==
    [line EXCEPT !.buffer = VecSet(@, 0, line.writeIndex, floatToQ12(value)),
                 !.writeIndex = CMod(line.writeIndex + 1, line.buffer.size)]

\* the output of early tap or comb filter `line` for input `in` with the Q12
\* coefficient `coeff` (ReverbHall.cpp:235-237, 256-258)
FeedbackOutput(line, coeff, in) ==
    FAdd(in, FMul(Q12ToFloat(LineDelayed(line)), Q12ToFloat(coeff)))

\* the output of an allpass filter (ReverbHall.cpp:275-277)
AllpassOutput(ap, in) ==
    FSub(Q12ToFloat(LineDelayed(ap)), FMul(Q12ToFloat(ap.coeff), in))

\* the value an allpass filter stores (ReverbHall.cpp:278)
AllpassWriteValue(ap, in) ==
    FAdd(in, FMul(Q12ToFloat(ap.coeff), Q12ToFloat(LineDelayed(ap))))

\* a damping low-pass that weighs its input as it weighs its state
DampInputAsState(state, alpha, apOut) == FAdd(FMul(state, alpha), FMul(apOut, alpha))

\* the damping low-pass (ReverbHall.cpp:286-287)
Damp(state, alpha, apOut) == FAdd(FMul(state, alpha), FMul(apOut, FSub(F1, alpha)))

\* a mix that weighs the wet signal as it weighs the dry one
MixWetAsDry(dry, wet, mix) == FAdd(FMul(dry, FSub(F1, mix)), FMul(wet, FSub(F1, mix)))

\* the output mix (ReverbHall.cpp:291-292)
Mix(dry, wet, mix) == FAdd(FMul(dry, FSub(F1, mix)), FMul(wet, mix))

\* the sum and the count of the outputs of lines i .. n-1 that are active,
\* added in index order to <<sum, count>>
RECURSIVE SumActive(_, _, _, _, _, _)
SumActive(lines, coeff, in, i, n, acc) ==
    IF i = n THEN acc
    ELSE SumActive(lines, coeff, in, i + 1, n,
           IF LineActive(lines[i])
           THEN <<FAdd(acc[1], FeedbackOutput(lines[i], coeff[i], in)), acc[2] + 1>>
           ELSE acc)

\* the mean of the outputs, or the input when no line is active
\* (ReverbHall.cpp:246, 267)
StageMean(acc, in) == IF acc[2] > 0 THEN FDiv(acc[1], FromInt(acc[2])) ELSE in

\* a pre-delay that is always bypassed
PreDelayStageBypassed(h, monoFiltered) ==
    [buffer |-> h.preDelayBuffer, writeIndex |-> h.preDelayWriteIndex,
     out |-> monoFiltered]

\* the pre-delay (ReverbHall.cpp:219-225): buffer, write index, delayed input
PreDelayStage(h, monoFiltered) ==
    IF h.preDelayBuffer.size # 0 /\ h.preDelayReadOffset < h.preDelayBuffer.size
    THEN LET buf == VecSet(h.preDelayBuffer, F0, h.preDelayWriteIndex, monoFiltered)
             readIdx == CMod(h.preDelayWriteIndex - h.preDelayReadOffset
                             + h.preDelayBuffer.size, h.preDelayBuffer.size)
         IN  [buffer |-> buf,
              writeIndex |-> CMod(h.preDelayWriteIndex + 1, h.preDelayBuffer.size),
              out |-> VecGet(buf, F0, readIdx)]
    ELSE [buffer |-> h.preDelayBuffer, writeIndex |-> h.preDelayWriteIndex,
          out |-> monoFiltered]

\* the early reflections (ReverbHall.cpp:228-246)
EarlyStage(er, delayedInput) ==
    [lines |-> [i \in EarlyIdx |->
                 IF LineActive(er[i])
                 THEN LineWrite(er[i], FeedbackOutput(er[i], er[i].gain, delayedInput))
                 ELSE er[i]],
     out |-> StageMean(SumActive(er, [i \in EarlyIdx |-> er[i].gain], delayedInput,
                                 0, 8, <<F0, 0>>), delayedInput)]

\* the comb filters (ReverbHall.cpp:249-267)
CombStage(cf, earlyOut) ==
    [lines |-> [i \in CombIdx |->
                 IF LineActive(cf[i])
                 THEN LineWrite(cf[i], FeedbackOutput(cf[i], cf[i].feedbackGain, earlyOut))
                 ELSE cf[i]],
     out |-> StageMean(SumActive(cf, [i \in CombIdx |-> cf[i].feedbackGain], earlyOut,
                                 0, 4, <<F0, 0>>), earlyOut)]

\* one allpass filter of the chain: <<the filter after the call, its output>>
AllpassStep(ap, in) ==
    IF LineActive(ap) THEN <<LineWrite(ap, AllpassWriteValue(ap, in)), AllpassOutput(ap, in)>>
    ELSE <<ap, in>>

AllpassSecond(first, ap1) ==
    LET second == AllpassStep(ap1, first[2])
    IN  [lines |-> [i \in ApIdx |-> IF i = 0 THEN first[1] ELSE second[1]],
         out |-> second[2]]

\* the allpass filters in series (ReverbHall.cpp:270-283)
AllpassStage(ap, combOut) == AllpassSecond(AllpassStep(ap[0], combOut), ap[1])

\* damping, output mix and tail tracking (ReverbHall.cpp:285-297)
OutputStage(h, inL, inR, apOut, lpfL, lpfR) ==
    [h |-> [h EXCEPT !.lpfStateL = lpfL,
                     !.lpfStateR = lpfR,
                     !.currentTailLevel = FAdd(FMul(h.currentTailLevel, F0_999),
                                               FMul(FAbs(apOut), F0_001))],
     left |-> floatToQ12(Mix(inL, lpfL, h.mix)),
     right |-> floatToQ12(Mix(inR, FMul(lpfR, F0_9), h.mix))]

\* a damping stage that filters the left state only
ProcessDampingLeftOnly(h, inL, inR, apOut, alpha) ==
    OutputStage(h, inL, inR, apOut, Damp(h.lpfStateL, alpha, apOut), h.lpfStateR)

\* the damping low-pass on both states (ReverbHall.cpp:285-287)
ProcessDamping(h, inL, inR, apOut, alpha) ==
    OutputStage(h, inL, inR, apOut,
                Damp(h.lpfStateL, alpha, apOut), Damp(h.lpfStateR, alpha, apOut))

ProcessAllpass(h, inL, inR, aps) ==
    ProcessDamping([h EXCEPT !.allpassFilters = aps.lines], inL, inR, aps.out,
                   Q12ToFloat(h.dampingAlpha))

ProcessCombs(h, inL, inR, combs) ==
    ProcessAllpass([h EXCEPT !.combFilters = combs.lines], inL, inR,
                   AllpassStage(h.allpassFilters, combs.out))

ProcessEarly(h, inL, inR, early) ==
    ProcessCombs([h EXCEPT !.earlyReflections = early.lines], inL, inR,
                 CombStage(h.combFilters, early.out))

ProcessPreDelay(h, inL, inR, pd) ==
    ProcessEarly([h EXCEPT !.preDelayBuffer = pd.buffer,
                           !.preDelayWriteIndex = pd.writeIndex], inL, inR,
                 EarlyStage(h.earlyReflections, pd.out))

\* input conditioning (ReverbHall.cpp:209-217)
ProcessInput(h, inL, inR, dc) ==
    ProcessPreDelay([h EXCEPT !.dcOffsetStateL = dc[2]], inL, inR,
                    PreDelayStage(h, Q12ToFloat(dc[1])))

ProcessMono(h, inL, inR) ==
    ProcessInput(h, inL, inR,
                 dcBlock(floatToQ12(FMul(FAdd(inL, inR), F0_5)), h.dcOffsetStateL))

\* ReverbHall::process: the instance after the call and the two samples it
\* hands back
process(h, left, right) == ProcessMono(h, Q12ToFloat(left), Q12ToFloat(right))

\* ReverbHall::updateModulation
updateModulation(h) ==
    LET phase == FAdd(h.lfoPhase, F0_05)
    IN  [h EXCEPT !.lfoPhase = IF FLess(FTwoPi, phase) THEN FSub(phase, FTwoPi) ELSE phase]

----------------------------------------------------------------------------
(* The state machine: one ReverbHall and the calls its owner makes on it *)

VARIABLES
    hall,        \* the ReverbHall instance
    outL, outR,  \* the samples the last process call handed back
    last,        \* the last call made and its arguments
    callsLeft,   \* the number of calls still to be made
    pulsesLeft,  \* the number of process calls with a nonzero input among them
    afterReset,  \* reset has run (by itself or at the end of prepare)
    silent,      \* reset has run and every process call since had zero inputs
    hist,        \* per delay line, the values it wrote since the last reset
    delayed,     \* per delay line, the value the last process call read from it
    fx,          \* the last call made on the FixedPointEngine and what it handed back
    hallB,       \* a second ReverbHall instance
    outBL,       \* the left sample the last process call on hallB handed back
    outBR,       \* the right sample the last process call on hallB handed back
    setupLeft,   \* per instance, the calls that may still be made on it before both are reset
    pool,        \* a DelayMemoryPool
    poolLast,    \* the last call made on the pool, the pool before it, what it handed back
    poolLeft,    \* the number of calls still to be made on the pool
    requested,   \* the size the pool was constructed with
    plugin,      \* the PluginProcessor instances: module, counter, lock, parameters
    globalDelayPool,             \* the pool the static pointer holds (0: none)
    globalDelayPoolInitialized,  \* the static flag
    pc,          \* per thread, where it is in the call it is making
    frame,       \* per thread, the arguments and locals of its call
    seen         \* what has been observed of the calls made so far

\* the second instance and what belongs to running two instances side by side
pairVars == <<hallB, outBL, outBR, setupLeft>>

\* the engine, the instance and what its owner observed of them
coreVars == <<hall, outL, outR, last, callsLeft, pulsesLeft, afterReset, silent, hist,
              delayed, fx, pairVars>>

\* the delay memory pool and what its caller observed of it
hostVars == <<pool, poolLast, poolLeft, requested>>

\* the plugin instances, the statics they share and the threads calling them
adapterVars == <<plugin, globalDelayPool, globalDelayPoolInitialized, pc, frame, seen>>

vars == <<coreVars, hostVars, adapterVars>>

\* the delay lines of an instance
Lines == ({"comb"} \X CombIdx) \cup ({"early"} \X EarlyIdx) \cup ({"allpass"} \X ApIdx)

LineOf(h, id) ==
    CASE id[1] = "comb" -> h.combFilters[id[2]]
      [] id[1] = "early" -> h.earlyReflections[id[2]]
      [] id[1] = "allpass" -> h.allpassFilters[id[2]]

\* the pre-delay, observed like a delay line: what each process call stored
\* in it (with the read offset in force) and what the last call read from it
PreDelayTap == <<"predelay", 0>>
Taps == Lines \cup {PreDelayTap}

NoHistory == [id \in Taps |-> <<>>]
NoReads == [id \in Taps |-> IF id = PreDelayTap THEN F0 ELSE 0]

\* the conditioned mono input of a process call: the mean of the two inputs,
\* quantized and DC-blocked (ReverbHall.cpp:209-217)
Conditioned(h, left, right) ==
    Q12ToFloat(dcBlock(floatToQ12(FMul(FAdd(Q12ToFloat(left), Q12ToFloat(right)), F0_5)),
                       h.dcOffsetStateL)[1])

\* bounds of the exploration: the calls made in Spec, the calls made and the
\* pulses among them in SpecRun
MaxSteps == 2
RunCalls == 14
MaxPulses == 1

\* the values handed to setParameter: below the range, inside it (and below
\* the 0.1 that validateParameters compares the size with), above it
ParamValues == {Flt(-1, 1), Flt(1, 16), Flt(3, 2)}

\* the indices handed to setParameter: 0..6 and one on each side
ParamIndices == -1 .. 7

\* two factory presets (ReverbHall.cpp:51, 53), a preset with values outside
\* [0,1] and a small size, and a preset that is too short
SmallRoom == <<F0, Flt(3, 10), Flt(6, 10), Flt(7, 10), Flt(8, 10), Flt(6, 10), Flt(4, 10)>>
LargeHall == <<Flt(2, 10), Flt(8, 10), Flt(9, 10), Flt(3, 10), Flt(6, 10), Flt(12, 10),
               Flt(6, 10)>>
OddPreset == <<Flt(3, 2), Flt(-1, 1), Flt(1, 2), Flt(1, 16), Flt(3, 2), Flt(1, 16),
               Flt(1, 2)>>
ShortPreset == <<Flt(1, 2), Flt(1, 2), Flt(1, 2)>>
Presets == {SmallRoom, LargeHall, OddPreset, ShortPreset}

\* the sample rates handed to prepare: the usual one, and two low ones at
\* which the delay lines are short enough to wrap within a few calls
LowRate == Flt(44100, 128)
LowestRate == Flt(44100, 256)
SampleRates == {F44100, LowRate}

\* the Q12 input samples: silence and a pulse
Pulse == <<2048, -1024>>
Silence == <<0, 0>>
Inputs == {Silence, Pulse}

\* every cell of every buffer and every filter state of h is zero
AllZero(h) ==
    /\ \A id \in Lines : LineOf(h, id).buffer.cells = <<>>
    /\ h.preDelayBuffer.cells = <<>>
    /\ h.dcOffsetStateL = F0 /\ h.dcOffsetStateR = F0
    /\ h.lpfStateL = F0 /\ h.lpfStateR = F0
    /\ h.dampingStateL = 0 /\ h.dampingStateR = 0

\* what reset is to leave alone: the parameters, the sample rate, the delay
\* lengths and buffer sizes, and the derived coefficients
Settings(h) ==
    [params |-> <<h.preDelay, h.decayTime, h.diffusion, h.damping, h.earlyLevel,
                  h.size, h.mix>>,
     sampleRate |-> h.sampleRate,
     delayLengths |-> [id \in Lines |-> LineOf(h, id).delayLength],
     bufferSizes |-> [id \in Lines |-> LineOf(h, id).buffer.size],
     preDelaySize |-> h.preDelayBuffer.size,
     feedbackGains |-> [i \in CombIdx |-> h.combFilters[i].feedbackGain],
     dampingAlpha |-> h.dampingAlpha,
     gains |-> [i \in EarlyIdx |-> h.earlyReflections[i].gain],
     coeffs |-> [i \in ApIdx |-> h.allpassFilters[i].coeff],
     preDelayReadOffset |-> h.preDelayReadOffset]

\* the two instances
Instances == {"A", "B"}

\* the threads that call into the plugin instances: the audio thread and the
\* control thread of instance A, and the thread that runs instance B
Threads == {"audio", "control", "other"}
Inst == [t \in Threads |-> IF t = "other" THEN "B" ELSE "A"]

\* MODULATION_UPDATE_RATE (PluginProcessor.h)
MODULATION_UPDATE_RATE == 64

\* EffectParameter: the fields createParameterLayout and loadPreset read
EffectParameter(minValue, maxValue, defaultValue, stepSize, isLogarithmic) ==
    [minValue |-> minValue, maxValue |-> maxValue, defaultValue |-> defaultValue,
     stepSize |-> stepSize, isLogarithmic |-> isLogarithmic]

\* ReverbHall::getParameterDefinitions
getParameterDefinitions ==
    <<EffectParameter(F0, F100, F0, F0_1, FALSE),
      EffectParameter(F0_1, F10, F2, Flt(1, 100), TRUE),
      EffectParameter(F0, F100, Flt(80, 1), F0_1, FALSE),
      EffectParameter(F0, F100, Flt(50, 1), F0_1, FALSE),
      EffectParameter(F0, F100, Flt(70, 1), F0_1, FALSE),
      EffectParameter(F0_5, F2, F1, Flt(1, 100), FALSE),
      EffectParameter(F0, F100, Flt(50, 1), F0_1, FALSE)>>

\* createParameterLayout: the value each AudioParameterFloat starts with
createParameterLayout == [i \in 1 .. 7 |-> getParameterDefinitions[i].defaultValue]

\* PluginProcessor::PluginProcessor
NewPluginProcessor ==
    [effectModule |-> NewReverbHall, modulationCounter |-> 0, processingLock |-> "free",
     parameters |-> createParameterLayout]

\* a thread that is in no call, with calls still to make
Idle(calls) ==
    [callsLeft |-> calls, blocksLeft |-> calls, numSamples |-> 0, in |-> F0,
     sampleRate |-> F0, preset |-> <<>>, out |-> <<F0, F0>>, pool |-> 0, done |-> "none"]

\* nothing has been called yet
NothingSeen ==
    [samples |-> [i \in Instances |-> 0], updates |-> [i \in Instances |-> 0],
     prepared |-> [i \in Instances |-> FALSE], pushed |-> [i \in Instances |-> <<>>],
     constructed |-> 0, replacedInUse |-> FALSE, accessLocks |-> {},
     unlockedMutation |-> FALSE, mutationInBlock |-> FALSE]

\* the plugin instances as constructed, no thread in a call
NoCalls ==
    /\ plugin = [i \in Instances |-> NewPluginProcessor]
    /\ globalDelayPool = 0
    /\ globalDelayPoolInitialized = FALSE
    /\ pc = [t \in Threads |-> "idle"]
    /\ seen = NothingSeen

\* no pool has been constructed
NoPool ==
    [size |-> 0, cells |-> <<>>, writePtr |-> 0, mask |-> 0, sampleRate |-> F0,
     constructed |-> FALSE]

\* what the owner has observed of a new instance and a new engine; the second
\* instance starts as the first one does
Fresh ==
    /\ outL = 0
    /\ outR = 0
    /\ hist = NoHistory
    /\ delayed = NoReads
    /\ fx = [op |-> "FixedPointEngine"]
    /\ hallB = hall
    /\ outBL = 0
    /\ outBR = 0
    /\ pool = NoPool
    /\ poolLast = [op |-> "none"]
    /\ poolLeft = 0
    /\ requested = 0
    /\ NoCalls

Init ==
    /\ setupLeft = [who \in Instances |-> 0]
    /\ hall = NewReverbHall
    /\ last = [op |-> "ReverbHall"]
    /\ callsLeft = MaxSteps
    /\ pulsesLeft = MaxSteps
    /\ afterReset = FALSE
    /\ silent = FALSE
    /\ Fresh
    /\ frame = [t \in Threads |-> Idle(0)]

SetParameter(parameterIndex, value) ==
    /\ callsLeft > 0
    /\ hall' = setParameter(hall, parameterIndex, value)
    /\ last' = [op |-> "setParameter", index |-> parameterIndex, value |-> value,
                before |-> Settings(hall)]
    /\ callsLeft' = callsLeft - 1
    /\ UNCHANGED <<outL, outR, pulsesLeft, afterReset, silent, hist, delayed, fx,
                   pairVars, hostVars, adapterVars>>

LoadPreset(preset) ==
    /\ callsLeft > 0
    /\ hall' = loadPreset(hall, preset)
    /\ last' = [op |-> "loadPreset", preset |-> preset, before |-> Settings(hall)]
    /\ callsLeft' = callsLeft - 1
    /\ UNCHANGED <<outL, outR, pulsesLeft, afterReset, silent, hist, delayed, fx,
                   pairVars, hostVars, adapterVars>>

Prepare(sr) ==
    /\ callsLeft > 0
    /\ hall' = prepare(hall, sr)
    /\ last' = [op |-> "prepare", sampleRate |-> sr]
    /\ callsLeft' = callsLeft - 1
    /\ afterReset' = TRUE
    /\ silent' = TRUE
    /\ hist' = NoHistory
    /\ delayed' = NoReads
    /\ UNCHANGED <<outL, outR, pulsesLeft, fx, pairVars, hostVars, adapterVars>>

Reset ==
    /\ callsLeft > 0
    /\ hall' = reset(hall)
    /\ last' = [op |-> "reset", before |-> Settings(hall), dirty |-> ~AllZero(hall)]
    /\ callsLeft' = callsLeft - 1
    /\ afterReset' = TRUE
    /\ silent' = TRUE
    /\ hist' = NoHistory
    /\ delayed' = NoReads
    /\ UNCHANGED <<outL, outR, pulsesLeft, fx, pairVars, hostVars, adapterVars>>

\* the effects of a process call whose result is res
Processed(in, res) ==
    /\ hall' = res.h
    /\ outL' = res.left
    /\ outR' = res.right
    /\ last' = [op |-> "process", left |-> in[1], right |-> in[2],
                lpfBefore |-> <<hall.lpfStateL, hall.lpfStateR>>]
    /\ callsLeft' = callsLeft - 1
    /\ pulsesLeft' = IF in = Silence THEN pulsesLeft ELSE pulsesLeft - 1
    /\ silent' = (silent /\ in = Silence)
    /\ hist' = [id \in Taps |->
                  IF id = PreDelayTap
                  THEN Append(hist[id], <<Conditioned(hall, in[1], in[2]),
                                          hall.preDelayReadOffset>>)
                  ELSE Append(hist[id], VecGet(LineOf(res.h, id).buffer, 0,
                                               LineOf(hall, id).writeIndex))]
    /\ delayed' = [id \in Taps |->
                     IF id = PreDelayTap
                     THEN PreDelayStage(hall, Conditioned(hall, in[1], in[2])).out
                     ELSE LineDelayed(LineOf(hall, id))]
    /\ UNCHANGED <<afterReset, fx, pairVars, hostVars, adapterVars>>

Process(in) ==
    /\ callsLeft > 0
    /\ in = Silence \/ pulsesLeft > 0
    /\ \E res \in {process(hall, in[1], in[2])} : Processed(in, res)

UpdateModulation ==
    /\ callsLeft > 0
    /\ hall' = updateModulation(hall)
    /\ last' = [op |-> "updateModulation"]
    /\ callsLeft' = callsLeft - 1
    /\ UNCHANGED <<outL, outR, pulsesLeft, afterReset, silent, hist, delayed, fx,
                   pairVars, hostVars, adapterVars>>

Next ==
    \/ \E i \in ParamIndices, v \in ParamValues : SetParameter(i, v)
    \/ \E p \in Presets : LoadPreset(p)
    \/ \E sr \in SampleRates : Prepare(sr)
    \/ Reset
    \/ \E in \in Inputs : Process(in)
    \/ UpdateModulation

\* any calls on a new instance
Spec == Init /\ [][Next]_vars

\* the instances a stream of samples is run through: a preset loaded, then
\* prepared at a low sample rate
RunSetups == {<<LargeHall, LowRate>>, <<SmallRoom, LowestRate>>}

InitRun ==
    /\ \E setup \in RunSetups :
          /\ hall = prepare(loadPreset(NewReverbHall, setup[1]), setup[2])
          /\ last = [op |-> "prepare", sampleRate |-> setup[2]]
    /\ callsLeft = RunCalls
    /\ pulsesLeft = MaxPulses
    /\ afterReset = TRUE
    /\ silent = TRUE
    /\ setupLeft = [who \in Instances |-> 0]
    /\ Fresh
    /\ frame = [t \in Threads |-> Idle(0)]

NextRun ==
    \/ \E in \in Inputs : Process(in)
    \/ Reset

\* a stream of samples through a prepared instance
SpecRun == InitRun /\ [][NextRun]_vars

\* the samples handed to the engine: the ends of the 20-bit range, one (4096)
\* and its negative, and the smallest values on both sides of zero
FixedSamples == {HISC_MIN, -Q12_ONE, -1, 0, 1, Q12_ONE, HISC_MAX}

Multiply(a, b) ==
    /\ fx' = [op |-> "multiply", a |-> a, b |-> b, out |-> multiply(a, b)]
    /\ UNCHANGED <<hall, outL, outR, last, callsLeft, pulsesLeft, afterReset, silent,
                   hist, delayed, pairVars, hostVars, adapterVars>>

Mac(a, b, c) ==
    /\ fx' = [op |-> "mac", a |-> a, b |-> b, c |-> c, out |-> mac(a, b, c)]
    /\ UNCHANGED <<hall, outL, outR, last, callsLeft, pulsesLeft, afterReset, silent,
                   hist, delayed, pairVars, hostVars, adapterVars>>

\* the floats handed to floatToQ12: inside the 20-bit range of the scaled
\* value, at its ends (+-128), beyond it, and beyond the range of int32_t
\* (2^19 = 524288 and more)
FloatSamples ==
    {F0, F0_5, Flt(-3, 10), Flt(1, 8192), Flt(-1, 8192), Flt(524287, 4096), Flt(-128, 1),
     Flt(16777215, 131072), Flt(-16777215, 131072), Flt(12345679, 1048576),
     Flt(128, 1), Flt(-129, 1), Flt(1000, 1), Flt(524287, 1), Flt(-524288, 1),
     Flt(524288, 1), Flt(600000, 1), Flt(-600000, 1), Flt(-2147483647, 1)}

FloatToQ12(f) ==
    /\ \E out \in floatToQ12Outcomes(f) :
          fx' = [op |-> "floatToQ12", f |-> f, out |-> out]
    /\ UNCHANGED <<hall, outL, outR, last, callsLeft, pulsesLeft, afterReset, silent,
                   hist, delayed, pairVars, hostVars, adapterVars>>

\* the Q12 values handed to Q12ToFloat: those of FixedSamples, some with many
\* bits set, and the two just outside the 20-bit range
Q12Samples == FixedSamples \cup {-524287, -4097, 12345, 349525, 524286, HISC_MIN - 1, HISC_MAX + 1}

FixedToFloat(q) ==
    /\ fx' = [op |-> "Q12ToFloat", q |-> q, out |-> Q12ToFloat(q)]
    /\ UNCHANGED <<hall, outL, outR, last, callsLeft, pulsesLeft, afterReset, silent,
                   hist, delayed, pairVars, hostVars, adapterVars>>

NextFixed ==
    \/ \E a, b \in FixedSamples : Multiply(a, b)
    \/ \E a, b, c \in FixedSamples : Mac(a, b, c)
    \/ \E f \in FloatSamples : FloatToQ12(f)
    \/ \E q \in Q12Samples : FixedToFloat(q)

\* any calls on a FixedPointEngine
SpecFixed == Init /\ [][NextFixed]_vars

\* bounds of the exploration of two instances: the calls made on each before
\* both are reset, and the process calls made on both after it
PairSetup == 2
PairCalls == 12

\* what is handed to the two instances before the reset: a small and a large
\* room size, a preset, a low sample rate, a pulse
PairValues == {Flt(1, 16), Flt(3, 2)}
PairPresets == {SmallRoom}
PairRates == {LowRate}

Instance(who) == IF who = "A" THEN hall ELSE hallB

\* the two instances hold the same seven parameters and the same sample rate
SameParameters ==
    /\ \A i \in 0 .. 6 : getParameter(hall, i) = getParameter(hallB, i)
    /\ hall.sampleRate = hallB.sampleRate

InitPair ==
    /\ hall = NewReverbHall
    /\ last = [op |-> "ReverbHall"]
    /\ callsLeft = PairCalls
    /\ pulsesLeft = MaxPulses
    /\ afterReset = FALSE
    /\ silent = FALSE
    /\ setupLeft = [who \in Instances |-> PairSetup]
    /\ Fresh
    /\ frame = [t \in Threads |-> Idle(0)]

\* the effects of a call on instance who that leaves it as h2
Configured(who, call, h2) ==
    /\ hall' = IF who = "A" THEN h2 ELSE hall
    /\ hallB' = IF who = "B" THEN h2 ELSE hallB
    /\ last' = call
    /\ setupLeft' = [setupLeft EXCEPT ![who] = @ - 1]

PairSetParameter(who, value) ==
    /\ ~afterReset
    /\ setupLeft[who] > 0
    /\ \E h2 \in {setParameter(Instance(who), 5, value)} :
          Configured(who, [op |-> "setParameter", index |-> 5, value |-> value], h2)
    /\ UNCHANGED <<outL, outR, outBL, outBR, callsLeft, pulsesLeft, afterReset, silent,
                   hist, delayed, fx, hostVars, adapterVars>>

PairLoadPreset(who, preset) ==
    /\ ~afterReset
    /\ setupLeft[who] > 0
    /\ \E h2 \in {loadPreset(Instance(who), preset)} :
          Configured(who, [op |-> "loadPreset", preset |-> preset], h2)
    /\ UNCHANGED <<outL, outR, outBL, outBR, callsLeft, pulsesLeft, afterReset, silent,
                   hist, delayed, fx, hostVars, adapterVars>>

PairPrepare(who, sr) ==
    /\ ~afterReset
    /\ setupLeft[who] > 0
    /\ \E h2 \in {prepare(Instance(who), sr)} :
          Configured(who, [op |-> "prepare", sampleRate |-> sr], h2)
    /\ UNCHANGED <<outL, outR, outBL, outBR, callsLeft, pulsesLeft, afterReset, silent,
                   hist, delayed, fx, hostVars, adapterVars>>

\* a process call on one instance before the reset
PairProcessOne(who) ==
    /\ ~afterReset
    /\ setupLeft[who] > 0
    /\ \E res \in {process(Instance(who), Pulse[1], Pulse[2])} :
          /\ Configured(who, [op |-> "process", left |-> Pulse[1], right |-> Pulse[2]],
                        res.h)
          /\ outL' = IF who = "A" THEN res.left ELSE outL
          /\ outR' = IF who = "A" THEN res.right ELSE outR
          /\ outBL' = IF who = "B" THEN res.left ELSE outBL
          /\ outBR' = IF who = "B" THEN res.right ELSE outBR
    /\ UNCHANGED <<callsLeft, pulsesLeft, afterReset, silent, hist, delayed, fx, hostVars,
                   adapterVars>>

\* reset on both instances, once they hold the same parameters and sample rate
PairReset ==
    /\ ~afterReset
    /\ SameParameters
    /\ hall' = reset(hall)
    /\ hallB' = reset(hallB)
    /\ last' = [op |-> "reset", before |-> Settings(hall), dirty |-> ~AllZero(hall)]
    /\ afterReset' = TRUE
    /\ silent' = TRUE
    /\ UNCHANGED <<outL, outR, outBL, outBR, callsLeft, pulsesLeft, hist, delayed, fx,
                   setupLeft, hostVars, adapterVars>>

\* the effects of a process call on both instances with results res and resB
PairProcessed(in, res, resB) ==
    /\ hall' = res.h
    /\ outL' = res.left
    /\ outR' = res.right
    /\ hallB' = resB.h
    /\ outBL' = resB.left
    /\ outBR' = resB.right
    /\ last' = [op |-> "process", left |-> in[1], right |-> in[2]]
    /\ callsLeft' = callsLeft - 1
    /\ pulsesLeft' = IF in = Silence THEN pulsesLeft ELSE pulsesLeft - 1
    /\ silent' = (silent /\ in = Silence)
    /\ UNCHANGED <<afterReset, hist, delayed, fx, setupLeft, hostVars, adapterVars>>

\* the same input through both instances, after the reset
PairProcess(in) ==
    /\ afterReset
    /\ callsLeft > 0
    /\ in = Silence \/ pulsesLeft > 0
    /\ \E res \in {process(hall, in[1], in[2])} :
          \E resB \in {process(hallB, in[1], in[2])} : PairProcessed(in, res, resB)

NextPair ==
    \/ \E who \in Instances, v \in PairValues : PairSetParameter(who, v)
    \/ \E who \in Instances, p \in PairPresets : PairLoadPreset(who, p)
    \/ \E who \in Instances, sr \in PairRates : PairPrepare(who, sr)
    \/ \E who \in Instances : PairProcessOne(who)
    \/ PairReset
    \/ \E in \in Inputs : PairProcess(in)

\* two instances, each brought to its settings by its own calls, then reset
\* and fed the same samples
SpecPair == InitPair /\ [][NextPair]_vars

----------------------------------------------------------------------------
(* A prepared instance driven at full level *)

\* bounds of the exploration: the process calls made, the setParameter calls
\* made among them, and the process calls of a block (setParameter is called
\* between two blocks)
LoudCalls == 16
TuneCalls == 1
LoudBlock == 4

\* the instances driven (<<parameter index, value, sample rate>>): the decay
\* time at 0 and prepared at 44100/128 Hz, where the comb feedback gain is at
\* its limit of 0.95; the damping at 0 and prepared at 44100/256 Hz; the
\* pre-delay at 0.25 (25 ms, 4 samples) and prepared at 44100/256 Hz
LoudSetups == {<<1, F0, LowRate>>, <<3, F0, LowestRate>>, <<0, Flt(1, 4), LowestRate>>}

\* the Q12 input samples at the ends of the 20-bit range
LoudInputs == {<<HISC_MAX, HISC_MAX>>, <<HISC_MIN, HISC_MIN + 1>>}

\* the parameters set while the instance is driven (<<parameter index,
\* value>>): damping to 0, mix to 0, pre-delay to 1
Tunings == {<<3, F0>>, <<6, F0>>, <<0, F1>>}

InitLoud ==
    /\ \E setup \in LoudSetups :
          /\ hall = prepare(setParameter(NewReverbHall, setup[1], setup[2]), setup[3])
          /\ last = [op |-> "prepare", sampleRate |-> setup[3]]
    /\ callsLeft = LoudCalls
    /\ pulsesLeft = LoudCalls
    /\ afterReset = TRUE
    /\ silent = TRUE
    /\ setupLeft = [who \in Instances |-> IF who = "A" THEN TuneCalls ELSE 0]
    /\ Fresh
    /\ frame = [t \in Threads |-> Idle(0)]

\* a process call; the input level is held from one process call to the next
Drive(in) ==
    /\ callsLeft > 0
    /\ last.op = "process" => in = <<last.left, last.right>>
    /\ \E res \in {process(hall, in[1], in[2])} : Processed(in, res)

\* setParameter(parameterIndex, value) between two blocks of process calls
Tune(parameterIndex, value) ==
    /\ setupLeft["A"] > 0
    /\ last.op = "process"
    /\ callsLeft % LoudBlock = 0
    /\ hall' = setParameter(hall, parameterIndex, value)
    /\ last' = [op |-> "setParameter", index |-> parameterIndex, value |-> value,
                before |-> Settings(hall)]
    /\ setupLeft' = [setupLeft EXCEPT !["A"] = @ - 1]
    /\ UNCHANGED <<outL, outR, callsLeft, pulsesLeft, afterReset, silent, hist, delayed,
                   fx, hallB, outBL, outBR, hostVars, adapterVars>>

NextLoud ==
    \/ \E in \in LoudInputs : Drive(in)
    \/ \E tuning \in Tunings : Tune(tuning[1], tuning[2])

\* samples at the ends of the range through a prepared instance
SpecLoud == InitLoud /\ [][NextLoud]_vars

----------------------------------------------------------------------------
(* The claims *)

\* the number of process calls since construction or the last reset
CallsSinceReset == Len(hist[<<"comb", 0>>])

\* C1: once reset has run (by itself or at the end of prepare), as long as
\* every process call since had zero left and right input, every one of these
\* calls hands back zero on both sides and every buffer cell and the DC-block
\* and damping low-pass states are still zero.
C1_SilenceAfterReset ==
    silent => /\ AllZero(hall)
              /\ last.op = "process" => (outL = 0 /\ outR = 0)

\* C1's case: a pulse went through the instance, reset ran, and silence has
\* been processed twice since
C1_Witness ==
    /\ silent
    /\ last.op = "process"
    /\ CallsSinceReset >= 2
    /\ pulsesLeft < MaxPulses

\* floor(a * b / 4096), taken limb by limb of b
FlooredProduct(a, b) == a * (b \div 4096) + ((a * (b % 4096)) \div 4096)

\* the value a call on the engine had before saturation
Unsaturated == FlooredProduct(fx.a, fx.b) + (IF fx.op = "mac" THEN fx.c ELSE 0)

\* C2: for a, b and c in the 20-bit range, multiply and mac hand back a value
\* in [-2^19, 2^19 - 1]; the overflow flag is set exactly when the unsaturated
\* value, (a*b) >> 12 for multiply and ((a*b) >> 12) + c for mac, is outside
\* that range; without the flag the value handed back is the unsaturated one.
C2_SaturatingProduct ==
    fx.op \in {"multiply", "mac"} =>
        /\ HISC_MIN <= fx.out.value /\ fx.out.value <= HISC_MAX
        /\ fx.out.overflow <=> (Unsaturated < HISC_MIN \/ Unsaturated > HISC_MAX)
        /\ ~fx.out.overflow => fx.out.value = Unsaturated

\* C2's case: a mac whose product alone is in range and whose sum is one
\* above the range
C2_Witness ==
    /\ fx.op = "mac"
    /\ fx.out.overflow
    /\ FlooredProduct(fx.a, fx.b) = HISC_MAX
    /\ fx.c = 1
    /\ fx.out.value = HISC_MAX

\* C3: two instances that hold the same seven parameters and the same sample
\* rate, however each came to them, hand back the same left and right samples
\* at every process call once both have been reset and are fed the same input.
C3_SameOutputsAfterReset ==
    (afterReset /\ last.op = "process" /\ SameParameters) =>
        (outL = outBL /\ outR = outBR)

\* C4: in every state the stored coefficients - the four comb feedback
\* gains, dampingAlpha, the eight early-tap gains, the two allpass coefficients
\* and preDelayReadOffset - are what the derivation gives for the parameters
\* and the sample rate the instance holds now.
C4_CoefficientsCurrent ==
    /\ \A i \in CombIdx :
          hall.combFilters[i].feedbackGain =
              CombFeedbackGain(hall.decayTime, hall.size, hall.sampleRate)
    /\ hall.dampingAlpha = DampingAlpha(hall.damping)
    /\ \A i \in EarlyIdx : hall.earlyReflections[i].gain = EarlyGain(hall.earlyLevel, i)
    /\ \A i \in ApIdx : hall.allpassFilters[i].coeff = AllpassCoeff(hall.diffusion)
    /\ hall.preDelayReadOffset = PreDelayReadOffset(hall.preDelay, hall.sampleRate)

\* C4's case: the sample rate was changed and then the decay time, and the
\* feedback gain is no longer the one of a new instance
C4_Witness ==
    /\ last.op = "setParameter"
    /\ last.index = 1
    /\ hall.sampleRate = LowRate
    /\ hall.combFilters[0].feedbackGain # NewReverbHall.combFilters[0].feedbackGain

\* C11: in every state the Q12 feedback gain of each of the four comb filters
\* is at least 0 and at most floor(0.95 * 4096) = 3891.
C11_FeedbackGainBounded ==
    \A i \in CombIdx :
        /\ 0 <= hall.combFilters[i].feedbackGain
        /\ hall.combFilters[i].feedbackGain <= (95 * Q12_ONE) \div 100

\* C11's case: the decay time was set at the usual sample rate, where the
\* power 10^(-3 * rt60 / avgDelay) is above 0.95, and the stored gain is 3891
C11_Witness ==
    /\ last.op = "setParameter"
    /\ last.index = 1
    /\ hall.sampleRate = F44100
    /\ \A i \in CombIdx : hall.combFilters[i].feedbackGain = 3891

\* C12: floatToQ12(f) hands back trunc(f * 4096) limited to [-2^19, 2^19 - 1];
\* a scaled value beyond the range, also beyond that of int32_t, gives the bound
\* on the side of f.
C12_FloatToQ12Saturates ==
    fx.op = "floatToQ12" =>
        LET scaled == FMul(fx.f, FromInt(Q12_ONE))
        IN  fx.out = IF FitsInt32(scaled) THEN ILimit(HISC_MIN, HISC_MAX, FTrunc(scaled))
                     ELSE IF scaled[1] > 0 THEN HISC_MAX ELSE HISC_MIN

\* 4096 * x for a float x that is a whole number of Q12 units (1/4096), and
\* floor(4096 * x) for any other; both for |x| of at most 2^19 units
Q12Units(x) ==
    IF x[2] + 12 >= 0 THEN x[1] * Pow2(x[2] + 12)
    ELSE x[1] \div Pow2(Min(-(x[2] + 12), 30))

Q12Exact(x) == x[2] + 12 >= 0 \/ x[1] % Pow2(Min(-(x[2] + 12), 30)) = 0

\* |back - v| < 1/4096, for a float back that is a whole number of Q12 units
WithinOneUnit(back, v) ==
    /\ Q12Exact(back)
    /\ IF Q12Exact(v) THEN Q12Units(back) = Q12Units(v)
       ELSE Q12Units(back) \in {Q12Units(v), Q12Units(v) + 1}

\* C13: for a float v with |v| < 128, Q12ToFloat(floatToQ12(v)) differs from v
\* by less than 1/4096; for a Q12 value q in [-2^19, 2^19 - 1],
\* floatToQ12(Q12ToFloat(q)) is q
C13_RoundTrip ==
    /\ (fx.op = "floatToQ12" /\ FLess(FAbs(fx.f), Flt(128, 1)))
          => WithinOneUnit(Q12ToFloat(fx.out), fx.f)
    /\ (fx.op = "Q12ToFloat" /\ HISC_MIN <= fx.q /\ fx.q <= HISC_MAX)
          => floatToQ12Outcomes(fx.out) = {fx.q}

\* both round trips are made: a float with bits below 1/4096 comes back
\* truncated, and the largest Q12 value comes back as itself
C13_Witness ==
    \/ fx.op = "floatToQ12" /\ fx.f = Flt(16777215, 131072) /\ fx.out = 524287
    \/ fx.op = "Q12ToFloat" /\ fx.q = HISC_MAX /\ fx.out = Flt(524287, 4096)

\* the base length of a delay line
BaseDelay(id) ==
    CASE id[1] = "comb" -> baseCombDelays[id[2] + 1]
      [] id[1] = "early" -> baseEarlyDelays[id[2] + 1]
      [] id[1] = "allpass" -> baseAllpassDelays[id[2] + 1]

\* C5: in every state the delay length of each comb, allpass and
\* early-reflection line is max(10, trunc(base * (sampleRate / 44100) * size))
\* for the size and the sample rate the instance holds now.
C5_DelayLengthsFollowSize ==
    \A id \in Lines :
        LineOf(hall, id).delayLength =
            DelayLength(BaseDelay(id), FDiv(hall.sampleRate, F44100), hall.size)

\* C6: after a reset, the delayed value a comb, allpass or early-reflection
\* line with delay length D reads during the n-th process call is the value the
\* same line wrote during call n - D when n > D, and 0 when n <= D.
C6_DelayedIsWrittenDAgo ==
    (afterReset /\ last.op = "process") =>
        \A id \in Lines :
            LET D == LineOf(hall, id).delayLength
                n == Len(hist[id])
            IN  delayed[id] = IF n > D THEN hist[id][n - D] ELSE 0

\* C6's case: a line of delay length 10 whose buffer has been gone around
\* once reads, in call 12, the nonzero value it wrote in call 2
C6_Witness ==
    /\ afterReset
    /\ last.op = "process"
    /\ \E id \in Lines :
          /\ LineOf(hall, id).delayLength = 10
          /\ Len(hist[id]) = 12
          /\ hist[id][2] # 0
          /\ delayed[id] = hist[id][2]
          /\ hist[id][1] # hist[id][2]

\* C7: in every state each comb, allpass and early-reflection line has a
\* buffer of delayLength + 1 cells and a write index inside it.
C7_BufferHoldsDelay ==
    \A id \in Lines :
        /\ LineOf(hall, id).buffer.size = LineOf(hall, id).delayLength + 1
        /\ 0 <= LineOf(hall, id).writeIndex
        /\ LineOf(hall, id).writeIndex < LineOf(hall, id).buffer.size

\* C7's case: the instance was prepared at another sample rate, which resized
\* the buffers, and a process call has moved the write indices
C7_Witness ==
    /\ last.op = "process"
    /\ hall.sampleRate = LowRate
    /\ hall.combFilters[0].buffer.size = 14
    /\ \A id \in Lines : LineOf(hall, id).writeIndex = 1

\* min(1, max(0, v))
Clamp01(v) == IF FLess(v, F0) THEN F0 ELSE IF FLess(F1, v) THEN F1 ELSE v

\* what parameter i reads after v was stored in it: the clamped value, but
\* 0.5 for a size (i = 5) whose clamped value is below 0.1
Stored(i, v) == IF i = 5 /\ FLess(Clamp01(v), F0_1) THEN F0_5 ELSE Clamp01(v)

C10_ResetKeepsSettings ==
    last.op = "reset" => Settings(hall) = last.before

\* C10's case: reset ran on an instance that had processed a pulse and held
\* its samples, and emptied it
C10_Witness ==
    /\ last.op = "reset"
    /\ last.dirty
    /\ AllZero(hall)
    /\ outL # 0

----------------------------------------------------------------------------
(* DelayMemoryPool: the circular buffer, its cursor and its mask *)

\* juce::nextPowerOfTwo(int n): n - 1 with its highest set bit copied into
\* every lower bit, plus one. For n <= 0 the decrement leaves a negative
\* number, the copies set every bit, and the sum is 0
nextPowerOfTwo(n) == IF n <= 0 THEN 0 ELSE Pow2(BitLen(n - 1))

\* a % b of C++ for b > 0: the remainder has the sign of a
CRem(a, b) == IF a < 0 THEN -((-a) % b) ELSE a % b

\* x & mask on 64 bits for a mask of size_t holding size - 1: the bits of x
\* below the power of two, or all of x when the size was 0 and the mask holds
\* 2^64 - 1, written -1 here
MaskAnd(x, mask) == IF mask = -1 THEN x ELSE x % (mask + 1)

\* v ^ 0x01 on int32_t
FlipLsb(v) == IF v % 2 = 0 THEN v + 1 ELSE v - 1

\* rng.nextInt(Range(-100, 100)) for cell i: a value of [-100, 100) that
\* depends on the seed
PoolFill(seed, i) == ((37 * i + 61 * seed) % 200) - 100

\* DelayMemoryPool::DelayMemoryPool(requestedSize)
NewDelayMemoryPool(requestedSize, seed) ==
    [size |-> nextPowerOfTwo(requestedSize),
     cells |-> [i \in 0 .. nextPowerOfTwo(requestedSize) - 1 |-> PoolFill(seed, i)],
     writePtr |-> 0,
     mask |-> nextPowerOfTwo(requestedSize) - 1,
     sampleRate |-> F44100,
     constructed |-> TRUE]

\* DelayMemoryPool::getSize
getSize(p) == p.size

\* DelayMemoryPool::readContended: the out-flag, the position read and
\* whether the vector has a cell there
readContended(p, offset, effectID) ==
    LET contention == CRem(p.writePtr, 4) # CRem(effectID, 4)
        readPos == MaskAnd(p.writePtr - (IF contention THEN Max(1, offset - 1) ELSE offset),
                           p.mask)
    IN  [contention |-> contention, readPos |-> readPos,
         defined |-> readPos \in DOMAIN p.cells]

\* DelayMemoryPool::write, the store and the advance of the cursor
StoreAndAdvance(p, sample) ==
    [p EXCEPT !.cells = [p.cells EXCEPT ![p.writePtr] = sample],
              !.writePtr = MaskAnd(p.writePtr + 1, p.mask)]

\* a write whose fault hits the cell just stored
writeFlippingStored(p, sample, flip) ==
    IF flip
    THEN [StoreAndAdvance(p, sample) EXCEPT !.cells[p.writePtr] = FlipLsb(@)]
    ELSE StoreAndAdvance(p, sample)

\* DelayMemoryPool::write; flip is the outcome of nextInt(10000) < 1
write(p, sample, flip) ==
    IF flip
    THEN [StoreAndAdvance(p, sample)
            EXCEPT !.cells[StoreAndAdvance(p, sample).writePtr] = FlipLsb(@)]
    ELSE StoreAndAdvance(p, sample)

\* DelayMemoryPool::clear
clear(p) == [p EXCEPT !.cells = [i \in DOMAIN p.cells |-> 0], !.writePtr = 0]

\* bounds of the exploration of a pool: the largest size requested and the
\* calls made on the pool
MaxPoolRequest == 5
PoolCalls == 3

\* what is handed to the pool: the requested sizes (0 included), the seeds of
\* the fill, an even and an odd sample, offsets below, at and beyond the
\* length, effect ids on both sides of zero, a sample rate
PoolRequests == 0 .. MaxPoolRequest
PoolSeeds == {0, 1}
PoolSamples == {6, -524287}
PoolOffsets == {-1, 0, 1, 2, 5, 9}
PoolEffectIDs == {-7, -4, -1, 0, 1, 2, 3, 6}

InitPool ==
    /\ hall = NewReverbHall
    /\ last = [op |-> "ReverbHall"]
    /\ callsLeft = 0
    /\ pulsesLeft = 0
    /\ afterReset = FALSE
    /\ silent = FALSE
    /\ setupLeft = [who \in Instances |-> 0]
    /\ outL = 0 /\ outR = 0 /\ outBL = 0 /\ outBR = 0
    /\ hist = NoHistory
    /\ delayed = NoReads
    /\ fx = [op |-> "FixedPointEngine"]
    /\ hallB = hall
    /\ requested \in PoolRequests
    /\ \E seed \in PoolSeeds : pool = NewDelayMemoryPool(requested, seed)
    /\ poolLast = [op |-> "DelayMemoryPool"]
    /\ poolLeft = PoolCalls
    /\ NoCalls
    /\ frame = [t \in Threads |-> Idle(0)]

\* an access outside the vector (a pool of size 0 has no cell): the behaviour
\* is undefined; the process is stopped, or goes on with the pool as given
Undefined(call, p) ==
    /\ poolLast' = [op |-> "undefined", call |-> call, before |-> pool]
    /\ \/ pool' = pool /\ poolLeft' = 0
       \/ pool' = p /\ poolLeft' = poolLeft - 1

PoolReadContended(offset, effectID, res) ==
    /\ poolLeft > 0
    /\ IF res.defined
       THEN /\ poolLast' = [op |-> "readContended", offset |-> offset,
                            effectID |-> effectID, contention |-> res.contention,
                            out |-> pool.cells[res.readPos], before |-> pool,
                            prev |-> IF poolLast.op = "write"
                                     THEN [op |-> "write", sample |-> poolLast.sample,
                                           before |-> poolLast.before]
                                     ELSE [op |-> poolLast.op]]
            /\ pool' = pool
            /\ poolLeft' = poolLeft - 1
       ELSE Undefined("readContended", pool)
    /\ UNCHANGED <<coreVars, requested, adapterVars>>

PoolWrite(sample, effectID) ==
    /\ poolLeft > 0
    /\ IF pool.writePtr \in DOMAIN pool.cells
       THEN /\ \E flip \in BOOLEAN : pool' = write(pool, sample, flip)
            /\ poolLast' = [op |-> "write", sample |-> sample, effectID |-> effectID,
                            before |-> pool]
            /\ poolLeft' = poolLeft - 1
       ELSE Undefined("write", [pool EXCEPT !.writePtr = MaskAnd(pool.writePtr + 1, pool.mask)])
    /\ UNCHANGED <<coreVars, requested, adapterVars>>

PoolClear ==
    /\ poolLeft > 0
    /\ pool' = clear(pool)
    /\ poolLast' = [op |-> "clear", before |-> pool]
    /\ poolLeft' = poolLeft - 1
    /\ UNCHANGED <<coreVars, requested, adapterVars>>

\* DelayMemoryPool::prepare
PoolPrepare(sr) ==
    /\ poolLeft > 0
    /\ pool' = [pool EXCEPT !.sampleRate = sr]
    /\ poolLast' = [op |-> "prepare", before |-> pool]
    /\ poolLeft' = poolLeft - 1
    /\ UNCHANGED <<coreVars, requested, adapterVars>>

NextPool ==
    \/ \E offset \in PoolOffsets, effectID \in PoolEffectIDs :
          PoolReadContended(offset, effectID, readContended(pool, offset, effectID))
    \/ \E sample \in PoolSamples, effectID \in PoolEffectIDs : PoolWrite(sample, effectID)
    \/ PoolClear
    \/ \E sr \in SampleRates : PoolPrepare(sr)

\* any calls on a pool of any requested size
SpecPool == InitPool /\ [][NextPool]_vars

\* a process that stores its left input in the pool and adds the cell it
\* reads back one sample behind the cursor
processThroughPool(h, left, right, delayPool) ==
    [process(h, left, right) EXCEPT
        !.left = saturate(@ + StoreAndAdvance(delayPool, left).cells[delayPool.writePtr])]
    @@ [delayPool |-> StoreAndAdvance(delayPool, left)]

\* ReverbHall::process with the pool it is handed (ReverbHall.cpp:203-206):
\* the instance, the two samples and the pool after the call
processIn(h, left, right, delayPool) ==
    process(h, left, right) @@ [delayPool |-> delayPool]

\* bounds of the exploration of an instance and the pool it is handed: the
\* process calls and the writes made on the pool by others
SharedCalls == 3
SharedWrites == 2

\* the sizes requested for the shared pool
SharedRequests == {2, 4}

\* another pool, of another size and other contents, a cell written
OtherPool == write(NewDelayMemoryPool(8, 1), 12345, FALSE)

InitShared ==
    /\ hall = NewReverbHall
    /\ last = [op |-> "ReverbHall"]
    /\ callsLeft = SharedCalls
    /\ pulsesLeft = 0
    /\ afterReset = FALSE
    /\ silent = FALSE
    /\ setupLeft = [who \in Instances |-> 0]
    /\ outL = 0 /\ outR = 0 /\ outBL = 0 /\ outBR = 0
    /\ hist = NoHistory
    /\ delayed = NoReads
    /\ fx = [op |-> "FixedPointEngine"]
    /\ hallB = hall
    /\ requested \in SharedRequests
    /\ \E seed \in PoolSeeds : pool = NewDelayMemoryPool(requested, seed)
    /\ poolLast = [op |-> "DelayMemoryPool"]
    /\ poolLeft = SharedWrites
    /\ NoCalls
    /\ frame = [t \in Threads |-> Idle(0)]

\* the effects of a process call on the first instance with the shared pool
\* (res) and of the same call on the second instance with the other pool
SharedProcessed(in, res, resB) ==
    /\ hall' = res.h
    /\ outL' = res.left
    /\ outR' = res.right
    /\ pool' = res.delayPool
    /\ hallB' = resB.h
    /\ outBL' = resB.left
    /\ outBR' = resB.right
    /\ last' = [op |-> "process", left |-> in[1], right |-> in[2]]
    /\ poolLast' = [op |-> "process", before |-> pool]
    /\ callsLeft' = callsLeft - 1
    /\ UNCHANGED <<pulsesLeft, afterReset, silent, hist, delayed, fx, setupLeft, poolLeft,
                   requested, adapterVars>>

SharedProcess(in) ==
    /\ callsLeft > 0
    /\ \E res \in {processIn(hall, in[1], in[2], pool)} :
          \E resB \in {processIn(hallB, in[1], in[2], OtherPool)} :
              SharedProcessed(in, res, resB)

NextShared ==
    \/ SharedProcess(Pulse)
    \/ \E sample \in PoolSamples : PoolWrite(sample, 0)

\* two instances fed the same samples, one handed a pool that others write
\* to, one handed another pool
SpecShared == InitShared /\ [][NextShared]_vars

\* size is the smallest power of two that is at least n
SmallestPowerOfTwo(size, n) ==
    \E k \in 0 .. 30 : size = Pow2(k) /\ size >= n /\ (k = 0 \/ Pow2(k - 1) < n)

\* C14: readContended sets contention exactly when the write cursor and the
\* effect id differ modulo 4 (negative ids included), then hands back the
\* cell max(1, offset - 1) behind the cursor, else the cell offset behind it
\* (modulo the length), and changes neither the buffer nor the cursor.
C14_ReadContended ==
    poolLast.op = "readContended" =>
        LET b == poolLast.before
            differ == (b.writePtr % 4) # (poolLast.effectID % 4)
            back == IF differ THEN Max(1, poolLast.offset - 1) ELSE poolLast.offset
        IN  /\ poolLast.contention = differ
            /\ poolLast.out = b.cells[(b.writePtr - back) % getSize(b)]
            /\ pool = b

\* C15: write stores the sample at the old cursor, advances the cursor by one
\* modulo the length, leaves every other cell alone except that the cell at
\* the new cursor may have its lowest bit flipped, and never corrupts the
\* cell that holds the sample.
C15_WriteFrame ==
    poolLast.op = "write" =>
        LET b == poolLast.before
            new == (b.writePtr + 1) % getSize(b)
        IN  /\ pool.cells[b.writePtr] = poolLast.sample
            /\ pool.writePtr = new
            /\ \A i \in DOMAIN b.cells \ {b.writePtr, new} : pool.cells[i] = b.cells[i]
            /\ new # b.writePtr =>
                  pool.cells[new] \in {b.cells[new], FlipLsb(b.cells[new])}

\* C16: the length of a constructed pool is the smallest power of two that is
\* at least the requested size (so at least 1), the mask is the length minus
\* one, and through any calls the length stays and the cursor is within it.
C16_PoolSize ==
    pool.constructed =>
        /\ SmallestPowerOfTwo(getSize(pool), requested)
        /\ getSize(pool) >= 1
        /\ pool.mask = getSize(pool) - 1
        /\ 0 <= pool.writePtr /\ pool.writePtr < getSize(pool)

----------------------------------------------------------------------------
(* PluginProcessor: the adapter between the host and the effect module *)

\* std::exp(std::log(p) / skew) in NormalisableRange::convertFrom0to1 for the
\* range of the decay time (skew set for the centre sqrt(0.1 * 10)), at the
\* proportions loadPreset computes for the decay of the presets used here
SkewTable ==
    {<<<<10845878, -29>>, <<12075886, -43>>>>, <<<<9490143, -27>>, <<14384849, -37>>>>}
Skewed(p) == (CHOOSE entry \in SkewTable : entry[1] = p)[2]

\* NormalisableRange::snapToLegalValue for a value v of at least def.minValue
snapToLegalValue(def, v) ==
    FLimit(def.minValue, def.maxValue,
           FAdd(def.minValue,
                FMul(def.stepSize,
                     FromInt(FTrunc(FAdd(FDiv(FSub(v, def.minValue), def.stepSize),
                                         F0_5))))))

\* RangedAudioParameter::convertFrom0to1: the value a parameter holds after
\* setValueNotifyingHost(normalised)
convertFrom0to1(def, normalised) ==
    LET p == FLimit(F0, F1, normalised)
    IN  snapToLegalValue(def,
          FAdd(def.minValue,
               FMul(FSub(def.maxValue, def.minValue),
                    IF def.isLogarithmic /\ FLess(F0, p) THEN Skewed(p) ELSE p)))

\* the loop of setParameter calls of processBlock and setStateInformation,
\* from index i on
RECURSIVE PushFrom(_, _, _)
PushFrom(h, values, i) ==
    IF i >= 7 THEN h
    ELSE CHOOSE r \in {PushFrom(h2, values, i + 1) : h2 \in {setParameter(h, i, values[i + 1])}} :
            TRUE

\* PluginProcessor::loadPreset, after effectModule->loadPreset: the values
\* the parameters are set to
presetParameters(h, preset, parameters) ==
    [i \in 1 .. 7 |->
        IF i <= Len(preset)
        THEN convertFrom0to1(getParameterDefinitions[i],
                             FDiv(FSub(getParameter(h, i - 1),
                                       getParameterDefinitions[i].minValue),
                                  FSub(getParameterDefinitions[i].maxValue,
                                       getParameterDefinitions[i].minValue)))
        ELSE parameters[i]]

\* a ScopedLock that enters whoever holds the lock
ScopedLockNeverWaits(lock) == TRUE

\* juce::ScopedLock sl(processingLock) can be entered
ScopedLockEnters(lock) == lock = "free"

\* an update that is due one sample late
ModulationDueLate(counter) == counter > MODULATION_UPDATE_RATE

\* "++modulationCounter >= MODULATION_UPDATE_RATE", for the incremented counter
ModulationDue(counter) == counter >= MODULATION_UPDATE_RATE

\* thread t is between the start of processBlock's parameter push and the end
\* of its sample loop
InBlock(t) == pc[t] \in {"pushing", "samples"}

\* the lock thread t holds, named by its instance
HeldLock(t) == IF plugin[Inst[t]].processingLock = t THEN Inst[t] ELSE "none"

\* what is observed when thread t changes the module of its instance
Mutation(t) ==
    [seen EXCEPT !.unlockedMutation = @ \/ plugin[Inst[t]].processingLock # t,
                 !.mutationInBlock =
                     @ \/ \E u \in Threads \ {t} : Inst[u] = Inst[t] /\ InBlock(u)]

\* what is observed when thread t reads or writes the statics
PoolAccess(t, s) == [s EXCEPT !.accessLocks = @ \cup {HeldLock(t)}]

Goto(t, label) == pc' = [pc EXCEPT ![t] = label]

\* prepareToPlay, up to the test of the flag: dspCore->prepare
PrepareToPlay(t, sr) ==
    /\ pc[t] = "idle"
    /\ frame[t].callsLeft > 0
    /\ frame' = [frame EXCEPT ![t].callsLeft = @ - 1, ![t].sampleRate = sr]
    /\ Goto(t, "poolCheck")
    /\ UNCHANGED <<coreVars, hostVars, plugin, globalDelayPool, globalDelayPoolInitialized,
                   seen>>

\* "if (!globalDelayPoolInitialized)"
PoolCheck(t) ==
    /\ pc[t] = "poolCheck"
    /\ seen' = PoolAccess(t, seen)
    /\ Goto(t, IF globalDelayPoolInitialized THEN "moduleLock" ELSE "poolMake")
    /\ UNCHANGED <<coreVars, hostVars, plugin, globalDelayPool, globalDelayPoolInitialized,
                   frame>>

\* "globalDelayPool = std::make_unique<DelayMemoryPool>(131072)" and its
\* prepare: the pointer holds a new pool, the pool it held is destroyed
PoolMake(t) ==
    /\ pc[t] = "poolMake"
    /\ globalDelayPool' = seen.constructed + 1
    /\ seen' = PoolAccess(t,
                 [seen EXCEPT !.constructed = @ + 1,
                              !.replacedInUse =
                                  @ \/ (globalDelayPool # 0 /\
                                        \E u \in Threads : Inst[u] # Inst[t] /\ InBlock(u))])
    /\ Goto(t, "poolFlag")
    /\ UNCHANGED <<coreVars, hostVars, plugin, globalDelayPoolInitialized, frame>>

\* "globalDelayPoolInitialized = true"
PoolFlag(t) ==
    /\ pc[t] = "poolFlag"
    /\ globalDelayPoolInitialized' = TRUE
    /\ seen' = PoolAccess(t, seen)
    /\ Goto(t, "moduleLock")
    /\ UNCHANGED <<coreVars, hostVars, plugin, globalDelayPool, frame>>

\* "const juce::ScopedLock sl(processingLock)" of prepareToPlay
ModuleLock(t) ==
    /\ pc[t] = "moduleLock"
    /\ ScopedLockEnters(plugin[Inst[t]].processingLock)
    /\ plugin' = [plugin EXCEPT ![Inst[t]].processingLock = t]
    /\ Goto(t, "modulePrepare")
    /\ UNCHANGED <<coreVars, hostVars, globalDelayPool, globalDelayPoolInitialized, frame,
                   seen>>

\* "effectModule->prepare(sampleRate, samplesPerBlock)" and the end of the
\* scope of the lock
ModulePrepare(t) ==
    /\ pc[t] = "modulePrepare"
    /\ plugin' = [plugin EXCEPT ![Inst[t]].effectModule = prepare(plugin[Inst[t]].effectModule, frame[t].sampleRate),
                                ![Inst[t]].processingLock = "free"]
    /\ seen' = Mutation(t)
    /\ Goto(t, "counter")
    /\ UNCHANGED <<coreVars, hostVars, globalDelayPool, globalDelayPoolInitialized, frame>>

\* "modulationCounter = 0" and the return of prepareToPlay
CounterReset(t) ==
    /\ pc[t] = "counter"
    /\ plugin' = [plugin EXCEPT ![Inst[t]].modulationCounter = 0]
    /\ seen' = [seen EXCEPT !.samples[Inst[t]] = 0, !.updates[Inst[t]] = 0,
                            !.prepared[Inst[t]] = TRUE]
    /\ frame' = [frame EXCEPT ![t].done = "prepareToPlay"]
    /\ Goto(t, "idle")
    /\ UNCHANGED <<coreVars, hostVars, globalDelayPool, globalDelayPoolInitialized>>

PrepareToPlaySteps(t) ==
    \/ PoolCheck(t)
    \/ PoolMake(t)
    \/ PoolFlag(t)
    \/ ModuleLock(t)
    \/ ModulePrepare(t)
    \/ CounterReset(t)

\* processBlock, up to and with its ScopedLock; the host calls it on a
\* prepared instance, with n samples of the level in on both channels
ProcessBlock(t, n, in) ==
    /\ pc[t] = "idle"
    /\ frame[t].callsLeft > 0
    /\ seen.prepared[Inst[t]]
    /\ ScopedLockEnters(plugin[Inst[t]].processingLock)
    /\ plugin' = [plugin EXCEPT ![Inst[t]].processingLock = t]
    /\ frame' = [frame EXCEPT ![t].callsLeft = @ - 1, ![t].numSamples = n, ![t].in = in]
    /\ Goto(t, "pushing")
    /\ UNCHANGED <<coreVars, hostVars, globalDelayPool, globalDelayPoolInitialized, seen>>

\* the parameter push (PluginProcessor.cpp:121-124) and the late
\* initialisation of the pool (126-129)
PushParameters(t) ==
    /\ pc[t] = "pushing"
    /\ plugin' = [plugin EXCEPT ![Inst[t]].effectModule =
                                   PushFrom(plugin[Inst[t]].effectModule, plugin[Inst[t]].parameters, 0)]
    /\ globalDelayPoolInitialized' = (globalDelayPoolInitialized \/ globalDelayPool # 0)
    /\ seen' = PoolAccess(t, [Mutation(t) EXCEPT
                                 !.pushed[Inst[t]] = plugin[Inst[t]].parameters])
    /\ Goto(t, "samples")
    /\ UNCHANGED <<coreVars, hostVars, globalDelayPool, frame>>

\* the effects of one pass of the sample loop in which process handed back res
Sampled(t, res, due) ==
    /\ plugin' = [plugin EXCEPT
                    ![Inst[t]].effectModule = IF due THEN updateModulation(res.h) ELSE res.h,
                    ![Inst[t]].modulationCounter = IF due THEN 0 ELSE @ + 1]
    /\ seen' = PoolAccess(t, [seen EXCEPT !.samples[Inst[t]] = @ + 1,
                                          !.updates[Inst[t]] = IF due THEN @ + 1 ELSE @])
    /\ frame' = [frame EXCEPT ![t].numSamples = @ - 1,
                              ![t].out = <<Q12ToFloat(res.left), Q12ToFloat(res.right)>>,
                              ![t].pool = IF globalDelayPool # 0 THEN globalDelayPool ELSE -1]
    /\ UNCHANGED <<coreVars, hostVars, globalDelayPool, globalDelayPoolInitialized, pc>>

\* one pass of the sample loop (PluginProcessor.cpp:132-162); the pool the
\* module is handed is the global one, or tempPool (-1) when there is none
ProcessSample(t) ==
    /\ pc[t] = "samples"
    /\ frame[t].numSamples > 0
    /\ \E res \in {process(plugin[Inst[t]].effectModule, floatToQ12(frame[t].in),
                            floatToQ12(frame[t].in))} :
          Sampled(t, res, ModulationDue(plugin[Inst[t]].modulationCounter + 1))

\* the end of the sample loop and of the scope of the lock
BlockEnd(t) ==
    /\ pc[t] = "samples"
    /\ frame[t].numSamples = 0
    /\ plugin' = [plugin EXCEPT ![Inst[t]].processingLock = "free"]
    /\ frame' = [frame EXCEPT ![t].done = "processBlock"]
    /\ Goto(t, "idle")
    /\ UNCHANGED <<coreVars, hostVars, globalDelayPool, globalDelayPoolInitialized, seen>>

ProcessBlockSteps(t) ==
    \/ PushParameters(t)
    \/ ProcessSample(t)
    \/ BlockEnd(t)

\* PluginProcessor::loadPreset, up to and with its ScopedLock
LoadPresetLock(t, preset) ==
    /\ pc[t] = "idle"
    /\ frame[t].callsLeft > 0
    /\ ScopedLockEnters(plugin[Inst[t]].processingLock)
    /\ plugin' = [plugin EXCEPT ![Inst[t]].processingLock = t]
    /\ frame' = [frame EXCEPT ![t].callsLeft = @ - 1, ![t].preset = preset]
    /\ Goto(t, "preset")
    /\ UNCHANGED <<coreVars, hostVars, globalDelayPool, globalDelayPoolInitialized, seen>>

\* the effects of the rest of loadPreset, h2 being the module with the preset
PresetLoaded(t, h2) ==
    /\ plugin' = [plugin EXCEPT
                    ![Inst[t]].effectModule = h2,
                    ![Inst[t]].parameters = presetParameters(h2, frame[t].preset, plugin[Inst[t]].parameters),
                    ![Inst[t]].processingLock = "free"]
    /\ seen' = Mutation(t)
    /\ frame' = [frame EXCEPT ![t].done = "loadPreset"]
    /\ Goto(t, "idle")
    /\ UNCHANGED <<coreVars, hostVars, globalDelayPool, globalDelayPoolInitialized>>

\* the rest of loadPreset (PluginProcessor.cpp:175-203)
LoadPresetBody(t) ==
    /\ pc[t] = "preset"
    /\ \E h2 \in {loadPreset(plugin[Inst[t]].effectModule, frame[t].preset)} :
          PresetLoaded(t, h2)

\* setStateInformation, up to its ScopedLock: replaceState gives the
\* parameters the values of the state
SetStateInformation(t, values) ==
    /\ pc[t] = "idle"
    /\ frame[t].callsLeft > 0
    /\ plugin' = [plugin EXCEPT ![Inst[t]].parameters = values]
    /\ frame' = [frame EXCEPT ![t].callsLeft = @ - 1]
    /\ Goto(t, "stateLock")
    /\ UNCHANGED <<coreVars, hostVars, globalDelayPool, globalDelayPoolInitialized, seen>>

\* "const juce::ScopedLock sl(processingLock)" of setStateInformation
StateLock(t) ==
    /\ pc[t] = "stateLock"
    /\ ScopedLockEnters(plugin[Inst[t]].processingLock)
    /\ plugin' = [plugin EXCEPT ![Inst[t]].processingLock = t]
    /\ Goto(t, "statePush")
    /\ UNCHANGED <<coreVars, hostVars, globalDelayPool, globalDelayPoolInitialized, frame,
                   seen>>

\* the loop of setParameter calls of setStateInformation and the end of the
\* scope of the lock
StatePush(t) ==
    /\ pc[t] = "statePush"
    /\ plugin' = [plugin EXCEPT
                    ![Inst[t]].effectModule = PushFrom(plugin[Inst[t]].effectModule, plugin[Inst[t]].parameters, 0),
                    ![Inst[t]].processingLock = "free"]
    /\ seen' = Mutation(t)
    /\ frame' = [frame EXCEPT ![t].done = "setStateInformation"]
    /\ Goto(t, "idle")
    /\ UNCHANGED <<coreVars, hostVars, globalDelayPool, globalDelayPoolInitialized>>

\* bounds of the exploration of one instance called by one thread: the calls
\* made
HostCalls == 4

\* what the host hands over: the sample rate, block lengths (none, one, and
\* on both sides of the update rate), the level of the samples of a block
\* (0.5 in a block of one sample, silence in the others),
\* and settings of the seven parameters within their declared ranges (the
\* middle of each range, and values that are also in [0,1])
HostRates == {F44100}
BlockLengths == {0, 1, 63, 65}
BlockLevels(n) == IF n = 1 THEN {F0_5} ELSE {F0}
MidRange == <<Flt(50, 1), Flt(5, 1), Flt(50, 1), Flt(50, 1), Flt(50, 1), Flt(3, 2),
              Flt(50, 1)>>
LowRange == <<F0_5, F0_5, Flt(1, 4), F1, F0, Flt(3, 4), F0_5>>
HostSettings == {MidRange, LowRange}

\* the plugin instances as constructed, thread t having calls to make
InitPlugins(calls) ==
    /\ hall = NewReverbHall
    /\ last = [op |-> "ReverbHall"]
    /\ callsLeft = 0
    /\ pulsesLeft = 0
    /\ afterReset = FALSE
    /\ silent = FALSE
    /\ setupLeft = [who \in Instances |-> 0]
    /\ Fresh
    /\ frame = [t \in Threads |-> Idle(calls[t])]

InitHost == InitPlugins([t \in Threads |-> IF t = "audio" THEN HostCalls ELSE 0])

NextHost ==
    \/ \E sr \in HostRates : PrepareToPlay("audio", sr)
    \/ PrepareToPlaySteps("audio")
    \/ \E n \in BlockLengths : \E in \in BlockLevels(n) : ProcessBlock("audio", n, in)
    \/ ProcessBlockSteps("audio")
    \/ \E values \in HostSettings : SetStateInformation("audio", values)
    \/ StateLock("audio")
    \/ StatePush("audio")

\* one instance, its calls made one after the other
SpecHost == InitHost /\ [][NextHost]_vars

\* bounds of the exploration of one instance called by two threads, and of
\* two instances called by a thread each: the calls each thread makes
ThreadCalls == 2
InstanceCalls == 2

\* the blocks and presets handed over while threads interleave
ShortBlocks == {0, 2}
ControlPresets == {LargeHall}
ControlSettings == {LowRange}

InitThreads == InitPlugins([t \in Threads |-> IF t = "other" THEN 0 ELSE ThreadCalls])

NextThreads ==
    \/ \E sr \in HostRates : PrepareToPlay("control", sr)
    \/ PrepareToPlaySteps("control")
    \/ \E preset \in ControlPresets : LoadPresetLock("control", preset)
    \/ LoadPresetBody("control")
    \/ \E values \in ControlSettings : SetStateInformation("control", values)
    \/ StateLock("control")
    \/ StatePush("control")
    \/ \E n \in ShortBlocks : \E in \in BlockLevels(n) : ProcessBlock("audio", n, in)
    \/ ProcessBlockSteps("audio")

\* one instance, its audio thread in processBlock while its control thread
\* is in prepareToPlay, loadPreset or setStateInformation
SpecThreads == InitThreads /\ [][NextThreads]_vars

InitInstances ==
    InitPlugins([t \in Threads |-> IF t = "control" THEN 0 ELSE InstanceCalls])

NextInstances ==
    \E t \in {"audio", "other"} :
        \/ \E sr \in HostRates : PrepareToPlay(t, sr)
        \/ PrepareToPlaySteps(t)
        \/ \E n \in ShortBlocks : \E in \in BlockLevels(n) : ProcessBlock(t, n, in)
        \/ ProcessBlockSteps(t)

\* two instances in one process, each called by its own thread
SpecInstances == InitInstances /\ [][NextInstances]_vars

\* C17: after a prepareToPlay, through blocks of any length, updateModulation
\* has been invoked once for each 64 samples processed since, and the counter
\* is at least 0 and below 64 between samples.
C17_ModulationEvery64 ==
    \A i \in Instances :
        seen.prepared[i] =>
            /\ seen.updates[i] = seen.samples[i] \div 64
            /\ 0 <= plugin[i].modulationCounter
            /\ plugin[i].modulationCounter < 64

\* C17's case: blocks of 63 and 65 samples were processed, the second update
\* falling on the last sample of the second block
C17_Witness ==
    /\ pc["audio"] = "idle"
    /\ frame["audio"].done = "processBlock"
    /\ seen.samples["A"] = 128
    /\ seen.updates["A"] = 2
    /\ plugin["A"].modulationCounter = 0

\* C18: every change of the effect module by loadPreset, setParameter or
\* prepare is made with processingLock held, and none is made by another
\* thread between the start of processBlock's parameter push and the end of
\* its sample loop, through which the audio thread holds the lock.
C18_MutationsUnderLock ==
    /\ ~seen.unlockedMutation
    /\ ~seen.mutationInBlock
    /\ \A t \in Threads : InBlock(t) => plugin[Inst[t]].processingLock = t

\* C18's case: the audio thread is in its sample loop while the control
\* thread, its parameters already replaced, waits for the lock
C18_Witness ==
    /\ pc["audio"] = "samples"
    /\ frame["audio"].numSamples > 0
    /\ pc["control"] = "stateLock"
    /\ plugin["A"].processingLock = "audio"

\* C19: the process-wide pool is constructed once, it is not replaced while
\* another instance is in processBlock with a reference to it, and every
\* access to the pool and its flag is made under one common lock.
C19_PoolConstructedOnce ==
    /\ seen.constructed <= 1
    /\ ~seen.replacedInUse
    /\ Cardinality(seen.accessLocks) <= 1
    /\ "none" \notin seen.accessLocks

\* C20: after a processBlock, each value pushed was in [0,1] and the module
\* holds it as pushed.
C20_PushedNormalized ==
    \A t \in Threads :
        (pc[t] = "idle" /\ frame[t].done = "processBlock") =>
            \A k \in 1 .. 7 :
                /\ ~FLess(seen.pushed[Inst[t]][k], F0)
                /\ ~FLess(F1, seen.pushed[Inst[t]][k])
                /\ getParameter(plugin[Inst[t]].effectModule, k - 1) = seen.pushed[Inst[t]][k]

\* a Q12 value within the 20 bits of the sample format
InRange(v) == HISC_MIN <= v /\ v <= HISC_MAX

\* C21: every cell of every comb, allpass and early-reflection buffer holds a
\* value in [-2^19, 2^19 - 1], and so do the two samples process hands back.
C21_CellsAndOutputsInRange ==
    /\ \A id \in Lines :
          \A j \in DOMAIN LineOf(hall, id).buffer.cells :
              InRange(LineOf(hall, id).buffer.cells[j])
    /\ InRange(outL)
    /\ InRange(outR)

\* C21's case: driven at full level, a line reads back a cell at the top of
\* the range, adds it to its input and stores the sum, cut to the top of the
\* range
C21_Witness ==
    /\ last.op = "process"
    /\ last.left = HISC_MAX
    /\ \E id \in Lines :
          /\ Len(hist[id]) >= 12
          /\ delayed[id] = HISC_MAX
          /\ hist[id][Len(hist[id])] = HISC_MAX

\* C22: the two damping low-pass states are equal in every state, and the right
\* sample a process call hands back is mixed from a wet signal that is 0.9
\* times the left one.
C22_ChannelStatesEqual ==
    /\ hall.lpfStateL = hall.lpfStateR
    /\ last.op = "process" =>
          /\ outL = floatToQ12(Mix(Q12ToFloat(last.left), hall.lpfStateL, hall.mix))
          /\ outR = floatToQ12(Mix(Q12ToFloat(last.right), FMul(hall.lpfStateL, F0_9),
                                   hall.mix))

\* C22's case: a pulse has gone through, the two states are away from zero
\* and equal, and the samples handed back differ between the channels
C22_Witness ==
    /\ last.op = "process"
    /\ hall.lpfStateL # F0
    /\ hall.lpfStateR = hall.lpfStateL
    /\ outR # outL
    /\ pulsesLeft = 0

\* C23: in every state 1 <= preDelayReadOffset < preDelayBuffer.size() and
\* 0 <= preDelayWriteIndex < preDelayBuffer.size(); and when the offset has
\* been k in every process call since the reset, the pre-delayed sample of
\* call n is the conditioned mono input of call n - k, or 0 when n <= k.
C23_PreDelayReadsOffsetBack ==
    /\ 1 <= hall.preDelayReadOffset
    /\ hall.preDelayReadOffset < hall.preDelayBuffer.size
    /\ 0 <= hall.preDelayWriteIndex
    /\ hall.preDelayWriteIndex < hall.preDelayBuffer.size
    /\ (afterReset /\ last.op = "process") =>
          LET stored == hist[PreDelayTap]
              n == Len(stored)
              k == hall.preDelayReadOffset
          IN  (\A j \in 1 .. n : stored[j][2] = k) =>
                  delayed[PreDelayTap] = IF n > k THEN stored[n - k][1] ELSE F0

\* C23's case: with an offset of 4 samples, call 5 reads the conditioned input
\* of call 1, which is not that of call 2
C23_Witness ==
    /\ afterReset
    /\ last.op = "process"
    /\ hall.preDelayReadOffset = 4
    /\ Len(hist[PreDelayTap]) = 5
    /\ \A j \in 1 .. 5 : hist[PreDelayTap][j][2] = 4
    /\ delayed[PreDelayTap] = hist[PreDelayTap][1][1]
    /\ hist[PreDelayTap][1][1] # F0
    /\ hist[PreDelayTap][1][1] # hist[PreDelayTap][2][1]

\* the multiplier getParameterDisplay(5) formats: 0.5f + size * 1.5f
\* (ReverbHall.cpp:160)
DisplayedSize(h) == FAdd(F0_5, FMul(h.size, Flt(3, 2)))

\* C24: the factor by which prepare multiplies each base delay length, besides
\* sampleRate / 44100, is the multiplier 0.5 + 1.5 * size that
\* getParameterDisplay(5) shows, which lies in the declared range 0.5 to 2.0.
C24_SizeScalesByMultiplier ==
    last.op = "prepare" =>
        /\ ~FLess(DisplayedSize(hall), getParameterDefinitions[6].minValue)
        /\ ~FLess(getParameterDefinitions[6].maxValue, DisplayedSize(hall))
        /\ \A id \in Lines :
              LineOf(hall, id).delayLength =
                  DelayLength(BaseDelay(id), FDiv(hall.sampleRate, F44100),
                              DisplayedSize(hall))

\* C25: a process call leaves the pool it is handed as it was, cells and write
\* cursor, and two instances in the same state handed pools of different
\* contents and cursors hand back the same samples and stay in the same state.
C25_ProcessIgnoresPool ==
    /\ poolLast.op = "process" => pool = poolLast.before
    /\ outL = outBL
    /\ outR = outBR
    /\ hall = hallB

\* C25's case: the second process call, on a pool that was written to in
\* between and whose cells and cursor are not those of the other pool
C25_Witness ==
    /\ poolLast.op = "process"
    /\ callsLeft = SharedCalls - 2
    /\ poolLeft < SharedWrites
    /\ pool.writePtr # OtherPool.writePtr
    /\ pool.cells # OtherPool.cells
    /\ outL # 0

\* C26: with the mix at 0, process hands back the two samples it was given,
\* whatever the filter states are, and still advances every delay line.
C26_DryPassesUnchanged ==
    (last.op = "process" /\ hall.mix = F0) =>
        /\ outL = last.left
        /\ outR = last.right
        /\ \A id \in Lines :
              LineOf(hall, id).writeIndex =
                  CMod(Len(hist[id]), LineOf(hall, id).buffer.size)

\* C26's case: the mix was set to 0 while the instance was driven; the damping
\* low-pass holds a wet signal, the inputs differ between the channels and
\* come back as they were
C26_Witness ==
    /\ last.op = "process"
    /\ hall.mix = F0
    /\ hall.lpfStateL # F0
    /\ last.left # last.right
    /\ outL = last.left
    /\ outR = last.right
    /\ hall.combFilters[0].writeIndex > 4

\* C27: with the damping at 0 (dampingAlpha = 4096) a process call leaves the
\* two damping low-pass states as they were; where they are 0, as after a
\* reset, each sample handed back is the dry input times 1 - mix, quantized.
C27_UndampedStateFrozen ==
    (last.op = "process" /\ hall.damping = F0) =>
        /\ hall.dampingAlpha = Q12_ONE
        /\ <<hall.lpfStateL, hall.lpfStateR>> = last.lpfBefore
        /\ hall.lpfStateL = F0 =>
              /\ outL = floatToQ12(FMul(Q12ToFloat(last.left), FSub(F1, hall.mix)))
              /\ outR = floatToQ12(FMul(Q12ToFloat(last.right), FSub(F1, hall.mix)))

\* C27's case: prepared with the damping at 0 and driven at full level for 12
\* calls, the allpass output is away from zero, the states are still 0 and
\* the sample handed back is not the input
C27_Witness ==
    /\ last.op = "process"
    /\ hall.damping = F0
    /\ Len(hist[<<"comb", 0>>]) >= 12
    /\ hall.currentTailLevel # F0
    /\ hall.lpfStateL = F0
    /\ outL # 0
    /\ outL # last.left

\* the offset a read ends up using: the one asked for, or the larger of 1 and
\* one less when the read met contention
EffectiveOffset(offset, contention) == IF contention THEN Max(1, offset - 1) ELSE offset

\* C28: on a pool of two cells or more, a read at offset 1 that follows a
\* write hands back the sample written, for every effect id, contended or not,
\* faulted or not; a read that follows a write differs from what it would have
\* handed back without the fault only where its effective offset is a multiple
\* of the length; and a write leaves its sample in the cell the cursor was on,
\* whatever a fault had left there, touching no cell but that one and the one
\* the cursor moves to.
C28_ReadBackOfWrite ==
    /\ (poolLast.op = "readContended" /\ poolLast.prev.op = "write" /\ pool.size >= 2) =>
          LET w == poolLast.prev
              clean == write(w.before, w.sample, FALSE)
          IN  /\ poolLast.offset = 1 => poolLast.out = w.sample
              /\ poolLast.out # clean.cells[readContended(clean, poolLast.offset,
                                                          poolLast.effectID).readPos]
                    => EffectiveOffset(poolLast.offset, poolLast.contention) % pool.size = 0
    /\ (poolLast.op = "write" /\ pool.size >= 2) =>
          /\ pool.cells[poolLast.before.writePtr] = poolLast.sample
          /\ \A i \in DOMAIN pool.cells :
                i \notin {poolLast.before.writePtr, pool.writePtr}
                    => pool.cells[i] = poolLast.before.cells[i]

\* C28's case: a write whose fault fired, then a contended read at offset 1
\* that hands back the sample written
C28_Witness ==
    /\ poolLast.op = "readContended"
    /\ poolLast.prev.op = "write"
    /\ pool.size >= 2
    /\ pool # write(poolLast.prev.before, poolLast.prev.sample, FALSE)
    /\ poolLast.offset = 1
    /\ poolLast.contention
    /\ poolLast.out = poolLast.prev.sample

\* C29: loadPreset with a preset of fewer than 7 values leaves the 7
\* parameters and every derived coefficient as they were before the call.
C29_ShortPresetChangesNothing ==
    (last.op = "loadPreset" /\ Len(last.preset) < 7) => Settings(hall) = last.before

\* C29's case: a preset of three values, none of them the value its parameter
\* holds, was loaded
C29_Witness ==
    /\ last.op = "loadPreset"
    /\ Len(last.preset) = 3
    /\ \A i \in 1 .. 3 : last.preset[i] # last.before.params[i]
    /\ Settings(hall) = last.before

\* C30: setParameter(i, v) with i in 0..6 leaves the six other parameters as
\* they were; with i outside 0..6 it leaves the 7 parameters and every derived
\* coefficient as they were, and getParameter(i) is 0.
C30_SetParameterTouchesOnlyItsOwn ==
    last.op = "setParameter" =>
        /\ last.index \in 0 .. 6 =>
              \A j \in (0 .. 6) \ {last.index} :
                  getParameter(hall, j) = last.before.params[j + 1]
        /\ last.index \notin 0 .. 6 =>
              /\ Settings(hall) = last.before
              /\ getParameter(hall, last.index) = F0

\* C30's case: setParameter ran with an index outside 0..6 and a value above
\* 1 on an instance whose parameters, the size apart, had all been moved from
\* their defaults
C30_Witness ==
    /\ last.op = "setParameter"
    /\ last.index \notin 0 .. 6
    /\ last.value = Flt(3, 2)
    /\ \A j \in (0 .. 6) \ {5} : getParameter(hall, j) # getParameter(NewReverbHall, j)
    /\ hall.dampingAlpha # NewReverbHall.dampingAlpha
    /\ Settings(hall) = last.before

====
